---- MODULE Spec2Model ----
(***************************************************************************)
(* A model of zendriver's DOM facade (core/tab.py, core/element.py): the  *)
(* selector queries, the text search, the waiting calls, Tab.close and    *)
(* the mouse click; of the session's request/response correlation; and of *)
(* the CDP generator (scripts/generate_cdp.py) and the code it emits.     *)
(*                                                                         *)
(* Optional values (Python None or a value) are sequences of length <= 1.  *)
(***************************************************************************)
EXTENDS Integers, Sequences, FiniteSets, TLC

VARIABLES
    live,       \* the document the browser currently holds (a cdp.dom.Node tree)
    elem,       \* the query root the user holds: <<>>, or <<h>> with h.kind "elem"
                \* (an Element handle) or "raw" (a bare cdp.dom.Node)
    last,       \* what the most recent facade call sent, received and returned
    other,      \* a second Element handle, compared with elem by Element.__eq__
    eqres,      \* the result of the most recent elem == other: <<>> or <<BOOLEAN>>
    next_id,    \* the session's next request id
    pending,    \* the session's pending table: {[id, task]}, one slot per id
    socket,     \* the request frames written to the WebSocket, in order
    inbox,      \* the response frames the browser has written and nobody has read
    tasks,      \* the send tasks of the session: [pc, id, got]
    delivered,  \* the tasks in the order their responses were handed over
    codec,      \* a value of a generated type, its to_json and the from_json of that,
                \* or a JSON input and its from_json
    co,         \* a generator made by a generated command function
    run,        \* one run of the generator script: the documents it reads, how
                \* far main has come, the domains it holds, the files it wrote
    srch,       \* one text search of a tab: the call, the commands it has sent
                \* and what it returned
    wait,       \* one waiting call of a tab (find, select, find_all, select_all,
                \* xpath, wait_for, tab(...)): its clock, its attempts, its end
    cls,        \* one Tab.close: the handlers of the browser connection, the
                \* future, the events delivered
    clk,        \* one mouse click: the two sends and the order the session got them
    rep         \* an attribute list, the map made of it and the string form

domVars == <<live, elem, last, other, eqres>>
sendVars == <<next_id, pending, socket, inbox, tasks, delivered>>
genVars == <<codec, co>>
runVars == <<run>>
findVars == <<srch>>
tabVars == <<wait, cls, clk, rep>>
vars == <<domVars, sendVars, genVars, runVars, findVars, tabVars>>

\* what the calls on one part of the program leave alone
notDom == <<sendVars, genVars, runVars, findVars, tabVars>>
notSend == <<domVars, genVars, runVars, findVars, tabVars>>
notGen == <<domVars, sendVars, runVars, findVars, tabVars>>
notRun == <<domVars, sendVars, genVars, findVars, tabVars>>
notFind == <<domVars, sendVars, genVars, runVars, tabVars>>
notTab == <<domVars, sendVars, genVars, runVars, findVars>>

----------------------------------------------------------------------------
(* Bounds of the model *)

\* the number of times the browser rebuilds its node tree (node ids are reissued)
MaxGen == 2

\* the tabs (sessions) a handle can belong to
Tabs == {"tabA", "tabB"}

\* CSS selectors the user passes; "!!" is not a valid selector
Selectors == {"div", "p", "iframe", "!!"}

----------------------------------------------------------------------------
(* cdp.dom.Node values and the pages the browser can hold *)

Node(nid, bid, type, name, value, kids, attrs, cdoc, pid) ==
    [node_id |-> nid, backend_node_id |-> bid, node_type |-> type,
     node_name |-> name, node_value |-> value,
     child_node_count |-> Len(kids), children |-> kids,
     attributes |-> attrs, content_document |-> cdoc, parent_id |-> pid]

\* node ids are reissued by every rebuild g; backend node ids of elements persist
NodeId(g, k) == g * 10 + k
DocBackend(g, k) == 100 + g * 10 + k

TextNode(g) ==
    Node(NodeId(g, 5), 5, 3, "#text", "hello", <<>>, <<>>, <<>>, NodeId(g, 1))

DivNode(g) ==
    Node(NodeId(g, 1), 1, 1, "DIV", "", <<TextNode(g)>>,
         IF g % 2 = 1 THEN <<"class", "a", "id", "x">> ELSE <<"class", "b">>,
         <<>>, NodeId(g, 0))

PNode(g) ==
    Node(NodeId(g, 4), 4, 1, "P", "", <<>>, <<"id", "p">>, <<>>, NodeId(g, 3))

FrameDoc(g) ==
    Node(NodeId(g, 3), DocBackend(g, 3), 9, "#document", "",
         <<PNode(g)>>, <<>>, <<>>, NodeId(g, 2))

IframeNode(g) ==
    Node(NodeId(g, 2), 2, 1, "IFRAME", "", <<>>, <<"src", "f">>,
         <<FrameDoc(g)>>, NodeId(g, 0))

Page(g, hasDiv, hasIframe) ==
    Node(NodeId(g, 0), DocBackend(g, 0), 9, "#document", "",
         (IF hasDiv THEN <<DivNode(g)>> ELSE <<>>) \o
         (IF hasIframe THEN <<IframeNode(g)>> ELSE <<>>),
         <<>>, <<>>, 0)

\* the pages loaded by navigation: the DIV comes and goes, the IFRAME stays
Docs == {Page(g, d, TRUE) : g \in 1..MaxGen, d \in BOOLEAN}

\* the same page after the browser has rebuilt its node tree
Rebuilt(d) ==
    LET g == d.node_id \div 10
    IN  Page((g % MaxGen) + 1, \E i \in 1..Len(d.children) : d.children[i].node_name = "DIV",
             \E i \in 1..Len(d.children) : d.children[i].node_name = "IFRAME")

\* what the page can be when a call resumes after an await: unchanged or rebuilt
MidCall(d) == {d, Rebuilt(d)}

----------------------------------------------------------------------------
(* Tree traversal *)

\* the nodes below a list of siblings, depth first, following children only
RECURSIVE SubtreeSeq(_)
SubtreeSeq(ns) ==
    IF ns = <<>> THEN <<>>
    ELSE <<Head(ns)>> \o SubtreeSeq(Head(ns).children) \o SubtreeSeq(Tail(ns))

\* the browser's own view: frame documents belong to the page
RECURSIVE DeepSeq(_)
DeepSeq(ns) ==
    IF ns = <<>> THEN <<>>
    ELSE <<Head(ns)>> \o DeepSeq(Head(ns).content_document)
         \o DeepSeq(Head(ns).children) \o DeepSeq(Tail(ns))

\* util.filter_recurse(doc, lambda n: n.<field> == val): the first descendant,
\* depth first, or None
filter_recurse(doc, field, val) ==
    LET s == SelectSeq(SubtreeSeq(doc.children), LAMBDA n : n[field] = val)
    IN  IF s = <<>> THEN <<>> ELSE <<s[1]>>

\* Element.children: an IFRAME's children are those of its content document
ElemChildren(node) ==
    IF node.node_name = "IFRAME"
    THEN IF \/ node.content_document = <<>>
            \/ node.content_document[1].children = <<>>
            \/ node.content_document[1].child_node_count = 0
         THEN <<>>
         ELSE node.content_document[1].children
    ELSE IF node.child_node_count = 0 THEN <<>> ELSE node.children

\* the traversal of util.filter_recurse over Element objects (through Element.children)
RECURSIVE ElemSubtreeSeq(_)
ElemSubtreeSeq(ns) ==
    IF ns = <<>> THEN <<>>
    ELSE <<Head(ns)>> \o ElemSubtreeSeq(ElemChildren(Head(ns))) \o ElemSubtreeSeq(Tail(ns))

NodeIds(ns) == [i \in 1..Len(ns) |-> ns[i].node_id]

----------------------------------------------------------------------------
(* Element attribute map: an ordered list of <<name, value>> with dict semantics *)

AttrPut(m, k, v) ==
    IF \E i \in 1..Len(m) : m[i][1] = k
    THEN [i \in 1..Len(m) |-> IF m[i][1] = k THEN <<k, v>> ELSE m[i]]
    ELSE Append(m, <<k, v>>)

RECURSIVE MakeAttrsFrom(_, _, _, _)
MakeAttrsFrom(attributes, i, sav, m) ==
    IF i > Len(attributes) THEN m
    ELSE IF i % 2 = 1
         THEN MakeAttrsFrom(attributes, i + 1,
                            IF attributes[i] = "class" THEN "class_" ELSE attributes[i], m)
         ELSE MakeAttrsFrom(attributes, i + 1, sav,
                            IF sav # "" THEN AttrPut(m, sav, attributes[i]) ELSE m)

\* Element._make_attrs
make_attrs(node) == MakeAttrsFrom(node.attributes, 1, "", <<>>)

----------------------------------------------------------------------------
(* The browser's answers to the DOM commands, against the document d it holds *)

CouldNotFindNodeMsg == "Could not find node with given id"
BadSelectorMsg == "DOM Error while querying"
NoNodeForBackendMsg == "No node with given id found"

\* "could not find node" in e.message.lower()
IsCouldNotFindNode(err) == err # <<>> /\ err[1] \in {CouldNotFindNodeMsg}

TagOf(sel) ==
    CASE sel = "div" -> "DIV" [] sel = "p" -> "P" [] sel = "iframe" -> "IFRAME"
      [] OTHER -> ""

BrowserNode(d, nid) == SelectSeq(DeepSeq(<<d>>), LAMBDA n : n.node_id = nid)

BrowserMatches(root, sel) ==
    NodeIds(SelectSeq(SubtreeSeq(root.children), LAMBDA n : n.node_name = TagOf(sel)))

DOM_querySelectorAll(d, nid, sel) ==
    LET root == BrowserNode(d, nid)
    IN  IF root = <<>> THEN [err |-> <<CouldNotFindNodeMsg>>, ids |-> <<>>]
        ELSE IF TagOf(sel) = "" THEN [err |-> <<BadSelectorMsg>>, ids |-> <<>>]
        ELSE [err |-> <<>>, ids |-> BrowserMatches(root[1], sel)]

DOM_querySelector(d, nid, sel) ==
    LET r == DOM_querySelectorAll(d, nid, sel)
    IN  [r EXCEPT !.ids = IF @ = <<>> THEN <<>> ELSE <<@[1]>>]

DOM_resolveNode(d, bid) ==
    IF SelectSeq(DeepSeq(<<d>>), LAMBDA n : n.backend_node_id = bid) # <<>>
    THEN [err |-> <<>>, obj |-> <<[object_id |-> bid]>>]
    ELSE [err |-> <<NoNodeForBackendMsg>>, obj |-> <<>>]

DOM_setNodeValue(d, nid) ==
    IF BrowserNode(d, nid) = <<>> THEN <<CouldNotFindNodeMsg>> ELSE <<>>

DOM_setOuterHTML(d, nid) ==
    IF BrowserNode(d, nid) = <<>> THEN <<CouldNotFindNodeMsg>> ELSE <<>>

Cmd(m, a) == [method |-> m, arg |-> a]

----------------------------------------------------------------------------
(* Element *)

\* element.create / Element.__init__; created and missed are history fields:
\* the backend node id at construction, and whether the latest update found
\* no node with that backend node id in the document it fetched
Element(node, tab, tree) ==
    [kind |-> "elem", tab |-> tab, node |-> node, tree |-> tree, remote_object |-> <<>>,
     attrs |-> make_attrs(node), last |-> FALSE,
     created |-> node.backend_node_id, missed |-> FALSE]

\* a bare cdp.dom.Node the user passes as _node; only node and last (the
\* "__last" attribute) are state of the object
RawNode(node) ==
    [kind |-> "raw", tab |-> "", node |-> node, tree |-> <<>>, remote_object |-> <<>>,
     attrs |-> <<>>, last |-> FALSE, created |-> node.backend_node_id, missed |-> FALSE]

\* the node Element.update takes over from the fetched document
UpdatedNode_Doc(h, doc) == <<doc>>
UpdatedNode(h, doc) ==
    filter_recurse(doc, "backend_node_id", h.node.backend_node_id)

\* Element.update(_node): given is the _node argument, d the browser's document
ElementUpdate(h, given, d) ==
    LET doc   == IF given # <<>> THEN given[1] ELSE d
        sent0 == IF given # <<>> THEN <<>> ELSE <<Cmd("DOM.getDocument", -1)>>
        un    == UpdatedNode(h, doc)
        node1 == IF un # <<>> THEN un[1] ELSE h.node
        h1    == [h EXCEPT !.node = node1, !.tree = <<doc>>, !.missed = (un = <<>>)]
        r     == DOM_resolveNode(d, node1.backend_node_id)
        sent1 == sent0 \o <<Cmd("DOM.resolveNode", node1.backend_node_id)>>
    IN  IF r.err # <<>>
        THEN [h |-> h1, err |-> r.err, sent |-> sent1]
        ELSE [h |-> [h1 EXCEPT !.remote_object = r.obj, !.attrs = make_attrs(node1)],
              err |-> <<>>, sent |-> sent1]

----------------------------------------------------------------------------
(* Tab.query_selector / Tab.query_selector_all *)

\* the nodes util.filter_recurse finds for each returned node id, in order;
\* an id that is not in the local tree is skipped
RECURSIVE Locate(_, _)
Locate(local, ids) ==
    IF ids = <<>> THEN <<>>
    ELSE LET hit == SelectSeq(local, LAMBDA n : n.node_id = Head(ids))
         IN  (IF hit = <<>> THEN <<>> ELSE <<hit[1]>>) \o Locate(local, Tail(ids))

\* the local `doc` of a rooted query: the root, or an IFRAME's content document
RootDoc(r) ==
    IF r.node.node_name = "IFRAME" THEN r.node.content_document ELSE <<r.node>>

\* the tree that filter_recurse(doc, ...) walks for a rooted query
RootLocal(kind, r) ==
    IF r.node.node_name = "IFRAME" THEN SubtreeSeq(RootDoc(r)[1].children)
    ELSE IF kind = "elem" THEN ElemSubtreeSeq(ElemChildren(r.node))
    ELSE SubtreeSeq(r.node.children)

QueryCmd(all, nid) ==
    Cmd(IF all THEN "DOM.querySelectorAll" ELSE "DOM.querySelector", nid)

BrowserQuery(all, d, nid, sel) ==
    IF all THEN DOM_querySelectorAll(d, nid, sel) ELSE DOM_querySelector(d, nid, sel)

QueryResult(root, sent, resp, nupdates, outcome, err, ids, found) ==
    [root |-> root, sent |-> sent, resp |-> resp, nupdates |-> nupdates,
     outcome |-> outcome, err |-> err, ids |-> ids, found |-> found]

\* what the except branch does with an error that is not "could not find node"
\* when _node was supplied: nothing, so the empty node id list is returned
RootedOtherError(r, cmd, q) ==
    QueryResult(r, <<cmd>>, <<q.err>>, 0, "empty", <<>>, <<>>, <<>>)

\* the query with _node supplied (kind "elem": an Element, "raw": a cdp.dom.Node);
\* ds are the documents the browser holds at the first query, at the
\* revalidation and at the retry (the page can change while the call awaits)
RECURSIVE QueryRooted(_, _, _, _, _)
QueryRooted(kind, r, sel, all, ds) ==
    IF RootDoc(r) = <<>>
    THEN QueryResult(r, <<>>, <<>>, 0, "raise", <<"AttributeError">>, <<>>, <<>>)
    ELSE
    LET nid == RootDoc(r)[1].node_id
        cmd == QueryCmd(all, nid)
        q   == BrowserQuery(all, ds[1], nid, sel)
    IN  IF q.err = <<>>
        THEN LET found == Locate(RootLocal(kind, r), q.ids)
             IN  QueryResult(r, <<cmd>>, <<q.err>>, 0,
                             IF found = <<>> THEN "empty" ELSE "ok", <<>>, q.ids, found)
        ELSE IF IsCouldNotFindNode(q.err)
        THEN IF r.last
             THEN QueryResult([r EXCEPT !.last = FALSE], <<cmd>>, <<q.err>>, 0,
                              "empty", <<>>, <<>>, <<>>)
             ELSE LET u == IF kind = "elem" THEN ElementUpdate(r, <<>>, ds[2])
                           ELSE [h |-> r, err |-> <<>>, sent |-> <<>>]
                      n == IF kind = "elem" THEN 1 ELSE 0
                  IN  IF u.err # <<>>
                      THEN QueryResult(u.h, <<cmd>> \o u.sent, <<q.err>>, n,
                                       "raise", u.err, <<>>, <<>>)
                      ELSE LET rec == QueryRooted(kind, [u.h EXCEPT !.last = TRUE],
                                                  sel, all, Tail(Tail(ds)))
                           IN  [rec EXCEPT !.sent = <<cmd>> \o u.sent \o @,
                                           !.resp = <<q.err>> \o @,
                                           !.nupdates = @ + n]
        ELSE RootedOtherError(r, cmd, q)

\* the query without _node: the document is fetched first (browser holds ds[1]),
\* the query is answered against ds[2]
QueryDocument(sel, all, ds) ==
    LET doc == ds[1]
        cmd == QueryCmd(all, doc.node_id)
        q   == BrowserQuery(all, ds[2], doc.node_id, sel)
        get == Cmd("DOM.getDocument", -1)
    IN  IF q.err = <<>>
        THEN LET found == Locate(SubtreeSeq(doc.children), q.ids)
             IN  QueryResult(<<>>, <<get, cmd>>, <<q.err>>, 0,
                             IF found = <<>> THEN "empty" ELSE "ok", <<>>, q.ids, found)
        ELSE IF ~all /\ IsCouldNotFindNode(q.err)
        THEN QueryResult(<<>>, <<get, cmd>>, <<q.err>>, 0, "empty", <<>>, <<>>, <<>>)
        ELSE QueryResult(<<>>, <<get, cmd, Cmd("DOM.disable", 0)>>, <<q.err>>, 0,
                         "raise", q.err, <<>>, <<>>)

----------------------------------------------------------------------------
(* Element operations that send commands *)

OpResult(h, sent, nupdates, outcome, err, staleSend) ==
    [h |-> h, sent |-> sent, nupdates |-> nupdates, outcome |-> outcome,
     err |-> err, staleSend |-> staleSend]

\* Element.set_value
ElementSetValue(h, d) ==
    LET e == DOM_setNodeValue(d, h.node.node_id)
    IN  OpResult(h, <<Cmd("DOM.setNodeValue", h.node.node_id)>>, 0,
                 IF e = <<>> THEN "ok" ELSE "raise", e, h.missed)

\* Element.set_text; ds[1] is the browser's document while the text node is
\* written, ds[2] its document when the parent element is updated afterwards
RECURSIVE ElementSetText(_, _)
ElementSetText(h, ds) ==
    IF h.node.node_type # 3
    THEN IF h.node.child_node_count = 1
         THEN IF ElemChildren(h.node) = <<>>
              THEN OpResult(h, <<>>, 0, "raise", <<"IndexError">>, FALSE)
              ELSE LET c == ElementSetText(Element(ElemChildren(h.node)[1], h.tab, h.tree), ds)
                       u == ElementUpdate(h, <<>>, ds[2])
                   IN  IF c.outcome = "raise" THEN [c EXCEPT !.h = h]
                       ELSE OpResult(u.h, c.sent \o u.sent, c.nupdates + 1,
                                     IF u.err = <<>> THEN "ok" ELSE "raise", u.err,
                                     c.staleSend)
         ELSE OpResult(h, <<>>, 0, "raise", <<"RuntimeError">>, FALSE)
    ELSE LET u == ElementUpdate(h, <<>>, ds[1])
             e == DOM_setNodeValue(ds[1], u.h.node.node_id)
         IN  IF u.err # <<>> THEN OpResult(u.h, u.sent, 1, "raise", u.err, FALSE)
             ELSE OpResult(u.h, u.sent \o <<Cmd("DOM.setNodeValue", u.h.node.node_id)>>, 1,
                           IF e = <<>> THEN "ok" ELSE "raise", e, u.h.missed)

\* Element.parent
ElementParent(h) == filter_recurse(h.tree[1], "node_id", h.node.parent_id)

\* Element.click, with the flash it shows; vis: the browser reports content quads
ElementClick(h, d, vis) ==
    LET r  == DOM_resolveNode(d, h.node.backend_node_id)
        c1 == Cmd("DOM.resolveNode", h.node.backend_node_id)
        h1 == [h EXCEPT !.remote_object = r.obj]
        again == ElementParent(h1) = <<>>
        s2 == <<c1>> \o (IF again THEN <<c1>> ELSE <<>>)
        quads == Cmd("DOM.getContentQuads", 0)
        call == Cmd("Runtime.callFunctionOn", 0)
    IN  IF r.err # <<>> THEN OpResult(h, <<c1>>, 0, "raise", r.err, FALSE)
        ELSE IF h.tree = <<>> THEN OpResult(h1, <<c1>>, 0, "raise", <<"RuntimeError">>, FALSE)
        ELSE IF ~vis THEN OpResult(h1, s2 \o <<quads>>, 0, "raise", <<"Exception">>, FALSE)
        ELSE OpResult(h1, s2 \o <<quads, call, call>>, 0, "ok", <<>>, FALSE)

\* Element.save_to_dom; ds[2] is the browser's document after the outer HTML is set
ElementSaveToDom(h, ds) ==
    LET r  == DOM_resolveNode(ds[1], h.node.backend_node_id)
        c1 == Cmd("DOM.resolveNode", h.node.backend_node_id)
        c2 == Cmd("DOM.setOuterHTML", h.node.node_id)
        h1 == [h EXCEPT !.remote_object = r.obj]
        e  == DOM_setOuterHTML(ds[1], h.node.node_id)
        u  == ElementUpdate(h1, <<>>, ds[2])
    IN  IF r.err # <<>> THEN OpResult(h, <<c1>>, 0, "raise", r.err, FALSE)
        ELSE IF e # <<>> THEN OpResult(h1, <<c1, c2>>, 0, "raise", e, FALSE)
        ELSE OpResult(u.h, <<c1, c2>> \o u.sent, 1,
                      IF u.err = <<>> THEN "ok" ELSE "raise", u.err, FALSE)

\* the browser's document after DOM.removeNode
RECURSIVE RemoveFromSeq(_, _)
RemoveFromSeq(ns, nid) ==
    IF ns = <<>> THEN <<>>
    ELSE LET n == Head(ns)
             kids == RemoveFromSeq(n.children, nid)
         IN  (IF n.node_id = nid THEN <<>>
              ELSE <<[n EXCEPT !.children = kids, !.child_node_count = Len(kids),
                               !.content_document = RemoveFromSeq(@, nid)]>>)
             \o RemoveFromSeq(Tail(ns), nid)

\* Element.remove_from_dom; the result carries the browser's document afterwards
ElementRemoveFromDom(h, d) ==
    LET u == ElementUpdate(h, <<>>, d)
        n == filter_recurse(u.h.tree[1], "backend_node_id", u.h.node.backend_node_id)
    IN  IF u.err # <<>>
        THEN [res |-> OpResult(u.h, u.sent, 1, "raise", u.err, FALSE), live |-> d]
        ELSE IF n = <<>>
        THEN [res |-> OpResult(u.h, u.sent, 1, "ok", <<>>, FALSE), live |-> d]
        ELSE [res |-> OpResult(u.h, u.sent \o <<Cmd("DOM.removeNode", n[1].node_id)>>,
                               1, "ok", <<>>, FALSE),
              live |-> RemoveFromSeq(<<d>>, n[1].node_id)[1]]

----------------------------------------------------------------------------
(* The session after construction: no request sent yet *)

SendInit ==
    /\ next_id = 1
    /\ pending = {}
    /\ socket = <<>>
    /\ inbox = {}
    /\ tasks = <<>>
    /\ delivered = <<>>

\* no generated class or command function has been used yet
NoCodec == [src |-> "none", type |-> "", x |-> <<>>, j |-> <<>>, y |-> <<>>]
NoCo == [pc |-> "none", cmd |-> <<>>, args |-> <<>>, yields |-> <<>>, sent |-> <<>>,
         ret |-> <<>>]

GenInit ==
    /\ codec = NoCodec
    /\ co = NoCo

\* the generator script has not been started
NoRun == [pc |-> "idle"]

RunInit == run = NoRun

\* no text search has been called
NoSearch == [pc |-> "idle"]

FindInit == srch = NoSearch

\* no waiting call, no close, no click, no attribute list
NoWait == [pc |-> "idle"]
NoClose == [pc |-> "idle"]
NoClick == [pc |-> "idle"]
NoRepr == [pc |-> "idle"]
TabInit == wait = NoWait /\ cls = NoClose /\ clk = NoClick /\ rep = NoRepr

----------------------------------------------------------------------------
(* The facade as a state machine: one action per call the user makes *)

\* the error class of each response to the query command of a call
ErrClass(err) ==
    IF err = <<>> THEN "ok" ELSE IF IsCouldNotFindNode(err) THEN "cnf" ELSE "other"

ErrClasses(resp) == [i \in 1..Len(resp) |-> ErrClass(resp[i])]

NoCall ==
    [op |-> "none", kind |-> "doc", resp |-> <<>>, nupdates |-> 0, outcome |-> "ok",
     nids |-> 0, nret |-> 0, markBefore |-> FALSE, markAfter |-> FALSE,
     missedBefore |-> FALSE, staleSend |-> FALSE, changed |-> FALSE]

\* the record of a query call; h0 is the root before the call (<<>>: the document).
\* nids: the node ids in the last response; nret: the Elements returned;
\* markBefore, markAfter: the root carried "__last" before, after the call;
\* staleSend: DOM.setNodeValue was sent for a handle whose latest update had not
\* found its node; changed: the call gave the root another node id
QueryCall(op, h0, all, q) ==
    [op |-> op, kind |-> IF h0 = <<>> THEN "doc" ELSE h0[1].kind,
     resp |-> ErrClasses(q.resp), nupdates |-> q.nupdates, outcome |-> q.outcome,
     nids |-> Len(q.ids),
     nret |-> IF all THEN Len(q.found) ELSE IF q.found = <<>> THEN 0 ELSE 1,
     markBefore |-> h0 # <<>> /\ h0[1].last,
     markAfter |-> h0 # <<>> /\ q.root.last,
     missedBefore |-> h0 # <<>> /\ h0[1].missed, staleSend |-> FALSE,
     changed |-> h0 # <<>> /\ h0[1].node.node_id # q.root.node.node_id]

\* the record of an Element call
ElemCall(op, h0, r) ==
    [op |-> op, kind |-> "elem", resp |-> <<>>, nupdates |-> r.nupdates,
     outcome |-> r.outcome, nids |-> 0, nret |-> 0, markBefore |-> h0.last,
     markAfter |-> r.h.last,
     missedBefore |-> h0.missed, staleSend |-> r.staleSend,
     changed |-> h0.node.node_id # r.h.node.node_id]

\* the handle the user holds after a query: the one held before, or one of the
\* Elements the query returned (element.create(node, self, doc))
Keep(h, found, tree) ==
    {h} \cup {<<Element(found[i], "tabA", tree)>> : i \in 1..Len(found)}

\* the documents the browser can hold when a rooted query is sent again: the
\* page can have changed while the call awaited the update; a call that does
\* not send the query twice sees the page it started on
RetryDocs(r, d) ==
    IF RootDoc(r) # <<>> /\ ~r.last /\ BrowserNode(d, RootDoc(r)[1].node_id) = <<>>
    THEN MidCall(d) ELSE {d}

DomInit ==
    /\ live = Page(1, TRUE, TRUE)
    /\ elem = <<>>
    /\ last = NoCall
    /\ other = <<>>
    /\ eqres = <<>>
    /\ SendInit
    /\ GenInit
    /\ TabInit
    /\ RunInit
    /\ FindInit

\* the page changes in the browser: a rebuild, nodes added or removed
Navigate ==
    /\ \E d \in Docs : live' = d
    /\ UNCHANGED <<elem, last, other, eqres, notDom>>

\* the user takes an element node out of a document fetched with DOM.getDocument
PickRaw ==
    /\ \E i \in 1..Len(live.children) : elem' = <<RawNode(live.children[i])>>
    /\ UNCHANGED <<live, last, other, eqres, notDom>>

\* tab.query_selector(sel) / tab.query_selector_all(sel)
TabQueryDocument ==
    \E sel \in Selectors, all \in BOOLEAN, d1 \in MidCall(live) :
        LET q == QueryDocument(sel, all, <<live, d1>>)
        IN  /\ last' = QueryCall("tab_query", <<>>, all, q)
            /\ elem' \in Keep(elem, q.found, <<live>>)
            /\ live' = d1
            /\ UNCHANGED <<other, eqres, notDom>>

\* tab.query_selector(sel, _node) / tab.query_selector_all(sel, _node)
TabQueryRooted ==
    /\ elem # <<>>
    /\ \E sel \in Selectors, all \in BOOLEAN, d2 \in RetryDocs(elem[1], live) :
        LET q == QueryRooted(elem[1].kind, elem[1], sel, all, <<live, live, d2>>)
        IN  /\ last' = QueryCall("tab_query", elem, all, q)
            /\ elem' \in Keep(<<q.root>>, q.found, RootDoc(q.root))
            /\ live' = IF Len(q.resp) = 2 THEN d2 ELSE live
            /\ UNCHANGED <<other, eqres, notDom>>

\* elem.query_selector(sel) / elem.query_selector_all(sel)
ElemQuery ==
    /\ elem # <<>> /\ elem[1].kind = "elem"
    /\ \E sel \in Selectors, all \in BOOLEAN,
          d2 \in RetryDocs(ElementUpdate(elem[1], <<>>, live).h, live) :
        LET u == ElementUpdate(elem[1], <<>>, live)
            q == QueryRooted("elem", u.h, sel, all, <<live, live, d2>>)
        IN  IF u.err # <<>>
            THEN /\ last' = ElemCall("elem_query", elem[1],
                                     OpResult(u.h, u.sent, 1, "raise", u.err, FALSE))
                 /\ elem' = <<u.h>>
                 /\ UNCHANGED <<live, other, eqres, notDom>>
            ELSE /\ last' = [QueryCall("elem_query", elem, all, q) EXCEPT
                                !.nupdates = @ + 1]
                 /\ elem' \in Keep(<<q.root>>, q.found, RootDoc(q.root))
                 /\ live' = IF Len(q.resp) = 2 THEN d2 ELSE live
                 /\ UNCHANGED <<other, eqres, notDom>>

\* await elem.update() / elem.update(doc)
ElemUpdate ==
    /\ elem # <<>> /\ elem[1].kind = "elem"
    /\ \E given \in {<<>>} \cup {<<d>> : d \in Docs} :
        LET u == ElementUpdate(elem[1], given, live)
        IN  /\ last' = ElemCall("update", elem[1],
                                OpResult(u.h, u.sent, 1,
                                         IF u.err = <<>> THEN "ok" ELSE "raise", u.err, FALSE))
            /\ elem' = <<u.h>>
    /\ UNCHANGED <<live, other, eqres, notDom>>

ElemSetValue ==
    /\ elem # <<>> /\ elem[1].kind = "elem"
    /\ LET r == ElementSetValue(elem[1], live)
       IN  /\ last' = ElemCall("set_value", elem[1], r)
           /\ elem' = <<r.h>>
    /\ UNCHANGED <<live, other, eqres, notDom>>

ElemSetText ==
    /\ elem # <<>> /\ elem[1].kind = "elem"
    /\ \E d1 \in MidCall(live) :
        LET r == ElementSetText(elem[1], <<live, d1>>)
        IN  /\ last' = ElemCall("set_text", elem[1], r)
            /\ elem' = <<r.h>>
            /\ live' = IF r.nupdates = 2 THEN d1 ELSE live
    /\ UNCHANGED <<other, eqres, notDom>>

ElemClick ==
    /\ elem # <<>> /\ elem[1].kind = "elem"
    /\ \E vis \in BOOLEAN :
        LET r == ElementClick(elem[1], live, vis)
        IN  /\ last' = ElemCall("click", elem[1], r)
            /\ elem' = <<r.h>>
    /\ UNCHANGED <<live, other, eqres, notDom>>

ElemSaveToDom ==
    /\ elem # <<>> /\ elem[1].kind = "elem"
    /\ \E d1 \in MidCall(live) :
        LET r == ElementSaveToDom(elem[1], <<live, d1>>)
        IN  /\ last' = ElemCall("save_to_dom", elem[1], r)
            /\ elem' = <<r.h>>
            /\ live' = IF r.nupdates = 1 THEN d1 ELSE live
    /\ UNCHANGED <<other, eqres, notDom>>

ElemRemoveFromDom ==
    /\ elem # <<>> /\ elem[1].kind = "elem"
    /\ LET r == ElementRemoveFromDom(elem[1], live)
       IN  /\ last' = ElemCall("remove_from_dom", elem[1], r.res)
           /\ elem' = <<r.res.h>>
           /\ live' = r.live
    /\ UNCHANGED <<other, eqres, notDom>>

DomNext ==
    \/ Navigate
    \/ PickRaw
    \/ TabQueryDocument
    \/ TabQueryRooted
    \/ ElemQuery
    \/ ElemUpdate
    \/ ElemSetValue
    \/ ElemSetText
    \/ ElemClick
    \/ ElemSaveToDom
    \/ ElemRemoveFromDom

Spec == DomInit /\ [][DomNext]_vars

----------------------------------------------------------------------------
(* Element.__eq__ *)

\* bool(x) of a backend node id
Truthy(id) == id # 0

\* a.__eq__(b)
Element__eq__(a, b) ==
    IF b.kind # "elem" THEN FALSE
    ELSE IF Truthy(b.node.backend_node_id) /\ Truthy(a.node.backend_node_id)
         THEN b.node.backend_node_id = a.node.backend_node_id
         ELSE FALSE

\* the objects a query on tab t can hand to the user while the browser holds d
CreatedIn(t, d) == {Element(SubtreeSeq(d.children)[i], t, <<d>>) : i \in 1..Len(SubtreeSeq(d.children))}

EqInit ==
    /\ live = Page(1, TRUE, TRUE)
    /\ elem = <<>>
    /\ other = <<>>
    /\ eqres = <<>>
    /\ last = NoCall
    /\ SendInit
    /\ GenInit
    /\ TabInit
    /\ RunInit
    /\ FindInit

\* a query on some tab returns the left operand
EqCreateElem ==
    /\ \E t \in Tabs, d \in Docs : \E h \in CreatedIn(t, d) : elem' = <<h>>
    /\ eqres' = <<>>
    /\ UNCHANGED <<live, other, last, notDom>>

\* the right operand: an Element of some tab, or an object that is no Element
EqCreateOther ==
    /\ \E t \in Tabs, d \in Docs : \E h \in CreatedIn(t, d) :
          other' \in {<<h>>, <<RawNode(h.node)>>}
    /\ eqres' = <<>>
    /\ UNCHANGED <<live, elem, last, notDom>>

\* the left operand is revalidated against the page its tab shows
EqUpdate ==
    /\ elem # <<>>
    /\ \E d \in Docs : LET u == ElementUpdate(elem[1], <<>>, d) IN elem' = <<u.h>>
    /\ eqres' = <<>>
    /\ UNCHANGED <<live, other, last, notDom>>

\* elem == other
EqCompare ==
    /\ elem # <<>> /\ other # <<>>
    /\ eqres' = <<Element__eq__(elem[1], other[1])>>
    /\ UNCHANGED <<live, elem, other, last, notDom>>

EqNext == EqCreateElem \/ EqCreateOther \/ EqUpdate \/ EqCompare

SpecEq == EqInit /\ [][EqNext]_vars

----------------------------------------------------------------------------
(* Claims about the DOM facade *)

IsTabQuery == last.op \in {"tab_query", "elem_query"} /\ last.resp # <<>>

\* C1: a Tab.query_selector(_all) call rooted at an Element handle whose query
\* fails with "could not find node" updates the handle exactly once and sends
\* the query exactly once more; a successful retry returns its matches, a retry
\* that fails the same way returns empty
C1_RetryOnce ==
    (IsTabQuery /\ last.kind = "elem" /\ last.resp[1] = "cnf") =>
        /\ last.nupdates = (IF last.op = "elem_query" THEN 2 ELSE 1)
        /\ Len(last.resp) = 2
        /\ (last.resp[2] = "ok" => last.outcome # "raise" /\ last.nret = last.nids)
        /\ (last.resp[2] = "cnf" => last.outcome = "empty")

\* C3: a protocol error of DOM.querySelector(All) that is not "could not find
\* node" is raised to the caller, whatever the query is rooted at
C3_OtherErrorRaised ==
    IsTabQuery =>
        \A i \in 1..Len(last.resp) : last.resp[i] = "other" => last.outcome = "raise"

\* C4: once an update has not found the handle's backend node id, the text
\* setters send no DOM.setNodeValue for it, and click revalidates
C4_StaleDetected ==
    /\ last.op \in {"set_value", "set_text"} => ~last.staleSend
    /\ (last.op = "click" /\ last.missedBefore) => last.nupdates >= 1

\* C6: the handle's backend node id is the one it was created with, whatever
\* was called on it
C6_BackendNodeIdKept ==
    elem # <<>> => elem[1].node.backend_node_id = elem[1].created

\* C6 witness: an update has given the handle another node (a new node id)
C6_Witness ==
    /\ elem # <<>> /\ elem[1].kind = "elem"
    /\ last.op = "update" /\ last.outcome = "ok" /\ last.changed
    /\ elem[1].node.backend_node_id = elem[1].created

\* C5: a == b iff both backend node ids are defined and equal and both
\* handles belong to the same tab
C5_EqualIffSameNodeSameTab ==
    eqres # <<>> =>
        (eqres[1] <=> /\ other[1].kind = "elem"
                      /\ Truthy(elem[1].node.backend_node_id)
                      /\ Truthy(other[1].node.backend_node_id)
                      /\ elem[1].node.backend_node_id = other[1].node.backend_node_id
                      /\ elem[1].tab = other[1].tab)

----------------------------------------------------------------------------
(* Session transport: Connection.send and the listener, and the gathered   *)
(* sends of Tab.set_local_storage                                          *)

\* the sends issued on the session, and the items of one set_local_storage call
MaxSends == 4
MaxItems == 3

\* the id after n
NextId_Same(n) == n
NextId(n) == n + 1

\* registering a completion slot under an id (a table: one slot per id)
Register(table, id, t) == {p \in table : p.id # id} \cup {[id |-> id, task |-> t]}

SendTask == [pc |-> "ready", id |-> 0, got |-> <<>>]

\* tab.set_local_storage(items): asyncio.gather creates one send per item
SetLocalStorage ==
    /\ \E n \in 1..MaxItems :
          /\ Len(tasks) + n <= MaxSends
          /\ tasks' = tasks \o [i \in 1..n |-> SendTask]
    /\ UNCHANGED <<next_id, pending, socket, inbox, delivered, notSend>>

\* a send runs up to its await: it takes the next id, registers its slot
\* and writes its frame
SendStart ==
    /\ \E t \in 1..Len(tasks) :
          /\ tasks[t].pc = "ready"
          /\ tasks' = [tasks EXCEPT ![t] = [@ EXCEPT !.pc = "waiting", !.id = next_id]]
          /\ pending' = Register(pending, next_id, t)
          /\ socket' = Append(socket, [id |-> next_id, task |-> t, answered |-> FALSE])
          /\ next_id' = NextId(next_id)
    /\ UNCHANGED <<inbox, delivered, notSend>>

\* the browser answers some request it has read, in any order; re is the
\* position on the socket of the frame it answers
BrowserAnswer ==
    /\ \E i \in 1..Len(socket) :
          /\ ~socket[i].answered
          /\ socket' = [socket EXCEPT ![i].answered = TRUE]
          /\ inbox' = inbox \cup {[id |-> socket[i].id, re |-> i]}
    /\ UNCHANGED <<next_id, pending, tasks, delivered, notSend>>

\* the listener reads a response and completes the slot registered under its
\* id; a response with no slot is dropped
Listener ==
    /\ \E r \in inbox :
          /\ inbox' = inbox \ {r}
          /\ IF \E p \in pending : p.id = r.id
             THEN LET p == CHOOSE q \in pending : q.id = r.id
                  IN  /\ pending' = pending \ {p}
                      /\ tasks' = [tasks EXCEPT ![p.task] =
                                       [@ EXCEPT !.pc = "done", !.got = <<r>>]]
                      /\ delivered' = Append(delivered, p.task)
             ELSE UNCHANGED <<pending, tasks, delivered>>
    /\ UNCHANGED <<next_id, socket, notSend>>

SendNext == SetLocalStorage \/ SendStart \/ BrowserAnswer \/ Listener

\* a session on its own: no facade call is made
SessionInit ==
    /\ SendInit
    /\ live = Page(1, TRUE, TRUE)
    /\ elem = <<>>
    /\ last = NoCall
    /\ other = <<>>
    /\ eqres = <<>>
    /\ GenInit
    /\ TabInit
    /\ RunInit
    /\ FindInit

SpecSend == SessionInit /\ [][SendNext]_vars

\* C2: each awaiter of concurrent sends on one session receives the response
\* that carries its own request id and answers its own frame; the request ids
\* on the socket are strictly increasing, hence pairwise distinct
C2_OwnResponse ==
    /\ \A t \in 1..Len(tasks) :
          tasks[t].pc = "done" =>
              /\ tasks[t].got[1].id = tasks[t].id
              /\ socket[tasks[t].got[1].re].task = t
    /\ \A i, j \in 1..Len(socket) : i < j => socket[i].id < socket[j].id

\* C2 witness: all sends of a gathered call of three were waiting at once, and
\* the responses were handed over against the send order
C2_Witness ==
    /\ Len(tasks) >= 3
    /\ \A t \in 1..3 : tasks[t].pc = "done"
    /\ Len(delivered) >= 3
    /\ delivered[1] = 3 /\ delivered[3] = 1

----------------------------------------------------------------------------
(* The code generate_cdp.py emits, run on Python values.  A value is a     *)
(* record tagged by k: "none", "int", "str", "list", "dict", "tuple",      *)
(* "alias" (an instance of a generated primitive class), "enum" (a member  *)
(* of a generated enum), "obj" (an instance of a generated dataclass),     *)
(* "error" (the exception the evaluation raised)                           *)

\* the integers that occur in values
MaxInt == 1

None == [k |-> "none"]
PInt(n) == [k |-> "int", v |-> n]
PStr(str) == [k |-> "str", v |-> str]
PList(seq) == [k |-> "list", v |-> seq]
PTuple(seq) == [k |-> "tuple", v |-> seq]
PDict(f) == [k |-> "dict", v |-> f]
PAlias(t, prim) == [k |-> "alias", t |-> t, v |-> prim]
PEnum(t, member) == [k |-> "enum", t |-> t, v |-> member]
PObj(t, fields) == [k |-> "obj", t |-> t, v |-> fields]
Err(e) == [k |-> "error", v |-> e]

IsErr(val) == val.k = "error"
IsNone(val) == val.k = "none"

EmptyDict == [key \in {} |-> None]
DictPut(f, key, val) == [x \in DOMAIN f \cup {key} |-> IF x = key THEN val ELSE f[x]]

\* the exception raised while the elements of a sequence are evaluated in
\* order, or the sequence
FirstError(seq) ==
    IF \E i \in 1..Len(seq) : IsErr(seq[i])
    THEN <<seq[CHOOSE i \in 1..Len(seq) :
                  IsErr(seq[i]) /\ \A j \in 1..(i - 1) : ~IsErr(seq[j])]>>
    ELSE <<>>

ListOrError(seq) == IF FirstError(seq) # <<>> THEN FirstError(seq)[1] ELSE PList(seq)

(* The protocol description the generator is run on *)

\* CdpItems, CdpProperty (also CdpParameter, CdpReturn), CdpType, CdpCommand;
\* a type or ref that is None is ""
CdpItems(type, ref) == <<[type |-> type, ref |-> ref]>>
CdpProperty(name, type, ref, items, optional) ==
    [name |-> name, type |-> type, ref |-> ref, items |-> items, optional |-> optional]
CdpType(id, type, enum, properties) ==
    [id |-> id, type |-> type, enum |-> enum, properties |-> properties]
CdpCommand(domain, name, parameters, returns) ==
    [domain |-> domain, name |-> name, parameters |-> parameters, returns |-> returns]

NodeIdType == CdpType("NodeId", "integer", <<>>, <<>>)
PseudoTypeType == CdpType("PseudoType", "string", <<"before", "after">>, <<>>)
NodeType ==
    CdpType("Node", "object", <<>>,
            <<CdpProperty("frameId", "string", "", <<>>, TRUE),
              CdpProperty("nodeId", "", "NodeId", <<>>, FALSE),
              CdpProperty("pseudoType", "", "PseudoType", <<>>, TRUE),
              CdpProperty("childIds", "array", "", CdpItems("any", "NodeId"), TRUE)>>)

SchemaTypes == {NodeIdType, PseudoTypeType, NodeType}
TypeById(id) == CHOOSE t \in SchemaTypes : t.id = id

EnableCommand == CdpCommand("DOM", "enable", <<>>, <<>>)
DescribeNodeCommand ==
    CdpCommand("DOM", "describeNode",
               <<CdpProperty("depth", "integer", "", <<>>, TRUE),
                 CdpProperty("nodeId", "", "NodeId", <<>>, FALSE),
                 CdpProperty("childIds", "array", "", CdpItems("any", "NodeId"), TRUE)>>,
               <<CdpProperty("node", "", "Node", <<>>, FALSE)>>)
GetNodeForLocationCommand ==
    CdpCommand("DOM", "getNodeForLocation",
               <<CdpProperty("x", "integer", "", <<>>, FALSE),
                 CdpProperty("type", "", "PseudoType", <<>>, TRUE)>>,
               <<CdpProperty("frameId", "string", "", <<>>, TRUE),
                 CdpProperty("nodeId", "", "NodeId", <<>>, FALSE)>>)

SchemaCommands == {EnableCommand, DescribeNodeCommand, GetNodeForLocationCommand}

\* inflection.underscore(name) on the names of the description
underscore(name) ==
    CASE name = "frameId" -> "frame_id"
      [] name = "nodeId" -> "node_id"
      [] name = "pseudoType" -> "pseudo_type"
      [] name = "childIds" -> "child_ids"
      [] name = "backendNodeId" -> "backend_node_id"
      [] name = "resolveNode" -> "resolve_node"
      [] name = "describeNode" -> "describe_node"
      [] name = "getCookies" -> "get_cookies"
      [] name = "DOM" -> "dom"
      [] name = "Network" -> "network"
      [] name = "Page" -> "page"
      [] name = "Runtime" -> "runtime"
      [] OTHER -> name

\* the names of the description that are attributes of the builtins module
Builtins == {"type", "id", "object", "format"}

\* the names of the description that are keywords of Python; a keyword is not
\* an attribute of the builtins module
Keywords == {"class", "from"}

\* is_builtin(name): getattr(builtins, name) succeeds
is_builtin(name) == name \in Builtins

\* snake_case(name): an underscore is appended to a name that shadows a builtin
snake_case(name) ==
    IF is_builtin(underscore(name)) THEN underscore(name) \o "_" ELSE underscore(name)

\* CdpProperty.py_name
py_name(p) == snake_case(p.name)

\* props.sort(key=operator.attrgetter("optional")): a stable sort
SortedByOptional(props) ==
    SelectSeq(props, LAMBDA p : ~p.optional) \o SelectSeq(props, LAMBDA p : p.optional)

(* to_json *)

RECURSIVE to_json(_)

\* the right-hand side CdpProperty.generate_to_json emits for a property
ToJsonExpr(p, val) ==
    IF p.items # <<>>
    THEN IF val.k # "list" THEN Err("TypeError")
         ELSE IF p.items[1].ref # ""
         THEN ListOrError([i \in 1..Len(val.v) |-> to_json(val.v[i])])
         ELSE val
    ELSE IF p.ref # "" THEN to_json(val) ELSE val

\* CdpProperty.generate_to_json: the statement run on the dict d being built
generate_to_json_Always(p, d, val) ==
    IF IsErr(d) THEN d
    ELSE LET e == IF IsNone(val) THEN None ELSE ToJsonExpr(p, val)
         IN  IF IsErr(e) THEN e ELSE PDict(DictPut(d.v, p.name, e))
generate_to_json(p, d, val) ==
    IF IsErr(d) THEN d
    ELSE IF p.optional /\ IsNone(val) THEN d
    ELSE LET e == ToJsonExpr(p, val)
         IN  IF IsErr(e) THEN e ELSE PDict(DictPut(d.v, p.name, e))

\* the assignments of a to_json body or of a command body, in order
RECURSIVE ToJsonStatements(_, _, _)
ToJsonStatements(props, d, fields) ==
    IF props = <<>> THEN d
    ELSE ToJsonStatements(Tail(props),
                          generate_to_json(Head(props), d, fields[py_name(Head(props))]),
                          fields)

\* x.to_json() for the classes of generate_primitive_code, generate_enum_code
\* and generate_class_code; any other object has no such method
to_json(x) ==
    CASE x.k = "alias" -> x
      [] x.k = "enum" -> PStr(x.v)
      [] x.k = "obj" ->
            ToJsonStatements(SortedByOptional(TypeById(x.t).properties), PDict(EmptyDict), x.v)
      [] OTHER -> Err("AttributeError")

(* from_json *)

\* int(val) and str(val) on the values that occur
Construct(cons, val) ==
    CASE cons = "int" ->
            (CASE val.k = "int" -> val
               [] val.k = "alias" /\ val.v.k = "int" -> val.v
               [] val.k = "str" -> Err("ValueError")
               [] OTHER -> Err("TypeError"))
      [] cons = "str" ->
            (CASE val.k = "str" -> val
               [] val.k = "alias" /\ val.v.k = "str" -> val.v
               [] val.k = "int" -> PStr(ToString(val.v))
               [] val.k = "none" -> PStr("None"))

\* CdpPrimitiveType: the Python type of a CDP type
PrimitiveValue(cdp_type) ==
    CASE cdp_type = "integer" -> "int"
      [] cdp_type = "string" -> "str"

\* CdpPrimitiveType.get_constructor
get_constructor(cdp_type, val) ==
    IF cdp_type = "" \/ cdp_type = "any" THEN val
    ELSE Construct(PrimitiveValue(cdp_type), val)

RECURSIVE from_json(_, _)

\* the expression CdpProperty.generate_from_json emits, before the check
\* for an optional property
FromJsonExpr(p, json) ==
    IF json.k # "dict" THEN Err("TypeError")
    ELSE IF p.name \notin DOMAIN json.v THEN Err("KeyError")
    ELSE LET jv == json.v[p.name]
         IN  IF p.items # <<>>
             THEN IF jv.k # "list" THEN Err("TypeError")
                  ELSE ListOrError([i \in 1..Len(jv.v) |->
                           IF p.items[1].ref # "" THEN from_json(p.items[1].ref, jv.v[i])
                           ELSE get_constructor(p.items[1].type, jv.v[i])])
             ELSE IF p.ref # "" THEN from_json(p.ref, jv)
             ELSE get_constructor(p.type, jv)

\* json.get(name, None) is not None
HasValue_Truthy(json, name) ==
    /\ name \in DOMAIN json.v
    /\ json.v[name] \notin {None, PInt(0), PStr(""), PList(<<>>), PDict(EmptyDict)}
HasValue(json, name) == name \in DOMAIN json.v /\ ~IsNone(json.v[name])

\* CdpProperty.generate_from_json
generate_from_json_Strict(p, json) ==
    IF json.k # "dict" THEN Err("AttributeError")
    ELSE IF p.optional /\ p.name \notin DOMAIN json.v THEN None
    ELSE IF p.optional /\ IsNone(json.v[p.name]) THEN Err("TypeError")
    ELSE FromJsonExpr(p, json)
generate_from_json(p, json) ==
    IF p.optional
    THEN IF json.k # "dict" THEN Err("AttributeError")
         ELSE IF HasValue(json, p.name) THEN FromJsonExpr(p, json) ELSE None
    ELSE FromJsonExpr(p, json)

\* cls(name=expr, ...): the keyword arguments are evaluated in order
ClassFromJson(t, json) ==
    LET props == SortedByOptional(t.properties)
        vals  == [i \in 1..Len(props) |-> generate_from_json(props[i], json)]
        index(n) == CHOOSE i \in 1..Len(props) : py_name(props[i]) = n
    IN  IF FirstError(vals) # <<>> THEN FirstError(vals)[1]
        ELSE PObj(t.id, [n \in {py_name(props[i]) : i \in 1..Len(props)} |-> vals[index(n)]])

\* the enum class called on a value: the member with that value
EnumFromJson(t, json) ==
    IF json.k = "enum" /\ json.t = t.id THEN json
    ELSE IF json.k = "str" /\ \E i \in 1..Len(t.enum) : t.enum[i] = json.v
    THEN PEnum(t.id, json.v)
    ELSE Err("ValueError")

\* the primitive class called on a value: class NodeId(int)
PrimitiveFromJson(t, json) ==
    LET base == Construct(PrimitiveValue(t.type), json)
    IN  IF IsErr(base) THEN base ELSE PAlias(t.id, base)

\* T.from_json(json), by CdpType.generate_code's choice of class
from_json(id, json) ==
    LET t == TypeById(id)
    IN  IF t.enum # <<>> THEN EnumFromJson(t, json)
        ELSE IF t.properties # <<>> THEN ClassFromJson(t, json)
        ELSE PrimitiveFromJson(t, json)

(* Generated command functions *)

\* the body of a generated command function up to its yield: the request,
\* or the exception raised before it
CommandRequest(c, args) ==
    LET params == ToJsonStatements(c.parameters, PDict(EmptyDict), args)
        method == PStr(c.domain \o "." \o c.name)
    IN  IF c.parameters = <<>> THEN PDict([key \in {"method"} |-> method])
        ELSE IF IsErr(params) THEN params
        ELSE PDict([key \in {"method", "params"} |->
                       IF key = "method" THEN method ELSE params])

\* the order in which the return statement lists the return fields
ReturnOrder_Sorted(c) == SortedByOptional(c.returns)
ReturnOrder(c) == c.returns

\* the body after the yield, resumed with json
CommandReturn(c, json) ==
    LET rs   == ReturnOrder(c)
        vals == [i \in 1..Len(rs) |-> generate_from_json(rs[i], json)]
    IN  IF Len(rs) = 0 THEN None
        ELSE IF FirstError(vals) # <<>> THEN FirstError(vals)[1]
        ELSE IF Len(rs) = 1 THEN vals[1]
        ELSE PTuple(vals)

(* The values the generated code is used on *)

Ints == 0..MaxInt
Strs == {"", "f"}
Opt(S) == {None} \cup S
Missing == [k |-> "missing"]

NodeIdValues == {PAlias("NodeId", PInt(n)) : n \in Ints}
PseudoTypeValues == {PEnum("PseudoType", "before"), PEnum("PseudoType", "after")}
NodeIdLists == {PList(<<>>)} \cup {PList(<<i>>) : i \in NodeIdValues}
NodeValues ==
    {PObj("Node", r) : r \in [frame_id : Opt({PStr(str) : str \in Strs}),
                              node_id : NodeIdValues,
                              pseudo_type : Opt(PseudoTypeValues),
                              child_ids : Opt(NodeIdLists)]}

\* the valid instances of a generated type
Instances(id) ==
    CASE id = "NodeId" -> NodeIdValues
      [] id = "PseudoType" -> PseudoTypeValues
      [] id = "Node" -> NodeValues

\* a dict without the keys marked missing
Strip(r) == PDict([key \in {n \in DOMAIN r : r[n] # Missing} |-> r[key]])

NodeWire ==
    {Strip(r) : r \in [frameId : {Missing, None, PStr("f")},
                       nodeId : {Missing, PStr("f")} \cup {PInt(n) : n \in Ints},
                       pseudoType : {Missing, None, PStr("before"), PStr("bogus")},
                       childIds : {Missing, None, PList(<<>>), PList(<<PInt(0)>>)}]}

\* the JSON values that can arrive for a type: well-formed ones and others
WireInputs(id) ==
    CASE id = "NodeId" -> {None, PStr("f")} \cup {PInt(n) : n \in Ints}
      [] id = "PseudoType" -> {None, PStr("before"), PStr("after"), PStr("bogus")}
      [] id = "Node" -> NodeWire

\* the arguments a caller can pass for a parameter, by its declaration
ArgValues(p) ==
    LET vals == IF p.items # <<>> THEN NodeIdLists
                ELSE IF p.ref # "" THEN Instances(p.ref)
                ELSE IF p.type = "integer" THEN {PInt(n) : n \in Ints}
                ELSE {PStr(str) : str \in Strs}
    IN  IF p.optional THEN Opt(vals) ELSE vals

Args(c) ==
    LET names == {py_name(c.parameters[i]) : i \in 1..Len(c.parameters)}
        param(n) == c.parameters[CHOOSE i \in 1..Len(c.parameters) :
                                     py_name(c.parameters[i]) = n]
    IN  {a \in [names -> UNION {ArgValues(c.parameters[i]) : i \in 1..Len(c.parameters)}] :
            \A n \in names : a[n] \in ArgValues(param(n))}

\* the result objects the session can resume a command with
Results(c) ==
    CASE c = EnableCommand -> {PDict(EmptyDict)}
      [] c = DescribeNodeCommand ->
            {PDict(EmptyDict)} \cup {PDict([key \in {"node"} |-> j]) : j \in NodeWire}
      [] c = GetNodeForLocationCommand ->
            {Strip(r) : r \in [frameId : {Missing, None, PStr("f")},
                               nodeId : {Missing} \cup {PInt(n) : n \in Ints}]}

(* The generated code as a state machine: a behaviour takes one value,    *)
(* one JSON input or one command call and applies the generated code to it *)

Fresh == codec = NoCodec /\ co = NoCo

TypeIds == {t.id : t \in SchemaTypes}

\* the user constructs a valid instance of a generated type
GenConstruct ==
    /\ Fresh
    /\ \E id \in TypeIds : \E x \in Instances(id) :
          codec' = [src |-> "value", type |-> id, x |-> <<x>>, j |-> <<>>, y |-> <<>>]
    /\ co' = NoCo
    /\ UNCHANGED notGen

\* x.to_json()
GenToJson ==
    /\ codec.src = "value" /\ codec.j = <<>>
    /\ codec' = [codec EXCEPT !.j = <<to_json(codec.x[1])>>]
    /\ UNCHANGED <<co, notGen>>

\* a JSON value arrives from the browser for a type
GenReceive ==
    /\ Fresh
    /\ \E id \in TypeIds : \E j \in WireInputs(id) :
          codec' = [src |-> "wire", type |-> id, x |-> <<>>, j |-> <<j>>, y |-> <<>>]
    /\ co' = NoCo
    /\ UNCHANGED notGen

\* T.from_json(j)
GenFromJson ==
    /\ codec.j # <<>> /\ codec.y = <<>>
    /\ codec' = [codec EXCEPT !.y = <<from_json(codec.type, codec.j[1])>>]
    /\ UNCHANGED <<co, notGen>>

\* the user calls a generated command function and the session takes the
\* request out of the generator: next(gen)
GenCall ==
    /\ Fresh
    /\ \E c \in SchemaCommands : \E args \in Args(c) :
          LET req == CommandRequest(c, args)
          IN  co' = [pc |-> IF IsErr(req) THEN "raised" ELSE "suspended",
                     cmd |-> <<c>>, args |-> <<args>>,
                     yields |-> IF IsErr(req) THEN <<>> ELSE <<req>>,
                     sent |-> <<>>,
                     ret |-> IF IsErr(req) THEN <<req>> ELSE <<>>]
    /\ codec' = NoCodec
    /\ UNCHANGED notGen

\* the session resumes the generator with the result: gen.send(json); the body
\* has no second yield, so the generator returns or raises
GenResume ==
    /\ co.pc = "suspended"
    /\ \E json \in Results(co.cmd[1]) :
          LET ret == CommandReturn(co.cmd[1], json)
          IN  co' = [co EXCEPT !.pc = IF IsErr(ret) THEN "raised" ELSE "returned",
                               !.sent = <<json>>, !.ret = <<ret>>]
    /\ UNCHANGED <<codec, notGen>>

GenNext ==
    \/ GenConstruct
    \/ GenToJson
    \/ GenReceive
    \/ GenFromJson
    \/ GenCall
    \/ GenResume

\* the generated code on its own: no facade call, no send
GeneratedInit ==
    /\ GenInit
    /\ TabInit
    /\ RunInit
    /\ FindInit
    /\ SendInit
    /\ live = Page(1, TRUE, TRUE)
    /\ elem = <<>>
    /\ last = NoCall
    /\ other = <<>>
    /\ eqres = <<>>

SpecGen == GeneratedInit /\ [][GenNext]_vars

----------------------------------------------------------------------------
(* Claims about the generated code *)

IsGenerated(val) == val.k \in {"alias", "enum", "obj"}

\* the wire form of an argument: a generated value by its to_json, a list
\* element by element, anything else as it is
ToWire(val) ==
    IF IsGenerated(val) THEN to_json(val)
    ELSE IF val.k = "list"
    THEN PList([i \in 1..Len(val.v) |->
                   IF IsGenerated(val.v[i]) THEN to_json(val.v[i]) ELSE val.v[i]])
    ELSE val

\* the parameters of the command in co that were given a value
Given == {i \in 1..Len(co.cmd[1].parameters) :
             ~IsNone(co.args[1][py_name(co.cmd[1].parameters[i])])}

\* C7: a generated command yields exactly one request; its method is
\* "<Domain>.<commandName>"; its params hold exactly the arguments that are
\* not None, each encoded under its schema name; there is no params key when
\* the command declares no parameters
C7_OneRequest ==
    co.pc # "none" =>
        LET c == co.cmd[1]
        IN  /\ Len(co.yields) = 1
            /\ co.yields[1].k = "dict"
            /\ co.yields[1].v["method"] = PStr(c.domain \o "." \o c.name)
            /\ ("params" \in DOMAIN co.yields[1].v) <=> (c.parameters # <<>>)
            /\ DOMAIN co.yields[1].v \subseteq {"method", "params"}
            /\ c.parameters # <<>> =>
                  LET params == co.yields[1].v["params"].v
                  IN  /\ DOMAIN params = {c.parameters[i].name : i \in Given}
                      /\ \A i \in Given :
                            params[c.parameters[i].name] =
                                ToWire(co.args[1][py_name(c.parameters[i])])

\* C7 witness: a command was called with one optional argument left out and
\* another given, and has yielded its request
C7_Witness ==
    /\ co.pc = "suspended"
    /\ co.cmd[1] = DescribeNodeCommand
    /\ IsNone(co.args[1]["depth"])
    /\ co.args[1]["child_ids"] = PList(<<PAlias("NodeId", PInt(1))>>)
    /\ DOMAIN co.yields[1].v["params"].v = {"nodeId", "childIds"}

\* C8: resumed with a result, a generated command returns None when it has
\* no return field, the decoded value when it has one, and a tuple of the
\* decoded values in the order of the return schema when it has several
C8_ReturnShape ==
    co.pc = "returned" =>
        LET rs   == co.cmd[1].returns
            json == co.sent[1]
            ret  == co.ret[1]
        IN  /\ Len(rs) = 0 => IsNone(ret)
            /\ Len(rs) = 1 => ret = generate_from_json(rs[1], json)
            /\ Len(rs) > 1 =>
                  /\ ret.k = "tuple"
                  /\ Len(ret.v) = Len(rs)
                  /\ \A i \in 1..Len(rs) : ret.v[i] = generate_from_json(rs[i], json)

\* C8 witness: a command with two return fields, the optional one listed
\* first, has returned both
C8_Witness ==
    /\ co.pc = "returned"
    /\ co.cmd[1] = GetNodeForLocationCommand
    /\ co.ret[1] = PTuple(<<PStr("f"), PAlias("NodeId", PInt(1))>>)

OptionalProps(id) ==
    {TypeById(id).properties[i] : i \in {n \in 1..Len(TypeById(id).properties) :
                                            TypeById(id).properties[n].optional}}

Without(json, name) == PDict([key \in DOMAIN json.v \ {name} |-> json.v[key]])

IsEncoded == codec.src = "value" /\ codec.j # <<>> /\ codec.x[1].k = "obj"
IsDecoded ==
    /\ codec.src = "wire" /\ codec.y # <<>>
    /\ TypeById(codec.type).properties # <<>>

\* an absent optional field is left out by to_json, and a missing key is
\* decoded as absent by from_json
OptionalAbsent ==
    /\ IsEncoded =>
          \A p \in OptionalProps(codec.type) :
              IsNone(codec.x[1].v[py_name(p)]) => p.name \notin DOMAIN codec.j[1].v
    /\ IsDecoded =>
          \A p \in OptionalProps(codec.type) :
              (p.name \notin DOMAIN codec.j[1].v /\ codec.y[1].k = "obj")
                  => IsNone(codec.y[1].v[py_name(p)])

C10_RoundTrip ==
    /\ (codec.src = "value" /\ codec.y # <<>>) => codec.y[1] = codec.x[1]
    /\ ( /\ codec.src = "wire" /\ codec.y # <<>>
         /\ TypeById(codec.type).enum # <<>>
         /\ codec.j[1].k = "str"
         /\ \A i \in 1..Len(TypeById(codec.type).enum) :
               TypeById(codec.type).enum[i] # codec.j[1].v )
       => IsErr(codec.y[1])

\* C10 witness: an object with an absent optional field, an empty string and
\* a list of ids went through to_json and from_json
C10_Witness ==
    /\ codec.src = "value" /\ codec.type = "Node" /\ codec.y # <<>>
    /\ IsNone(codec.x[1].v["pseudo_type"])
    /\ codec.x[1].v["frame_id"] = PStr("")
    /\ codec.x[1].v["child_ids"] = PList(<<PAlias("NodeId", PInt(0))>>)
    /\ codec.j[1].k = "dict" /\ "pseudoType" \notin DOMAIN codec.j[1].v
    /\ codec.y[1] = codec.x[1]

----------------------------------------------------------------------------
(* The generator script: the JSON documents it reads                       *)
(*                                                                         *)
(* A JSON object is a record; a key the object may lack is a sequence of   *)
(* length <= 1, except "type" of a property ("" when absent) and the flag  *)
(* "optional" (FALSE when absent).  A "$ref" string "Domain.TypeId" is the *)
(* pair of its two parts and a local "TypeId" has the domain "".  A        *)
(* description is the sequence of its words; a stray backtick is a word.   *)

\* the longest property or parameter list of the documents
MaxProps == 3

Ref(domain, id) == [domain |-> domain, id |-> id]

JItems(type, ref) == [type |-> type, ref |-> ref]
JProperty(name, type, ref, items, optional) ==
    [name |-> name, type |-> type, ref |-> ref, items |-> items, optional |-> optional]
JType(id, type, items, enum, properties) ==
    [id |-> id, type |-> type, items |-> items, enum |-> enum, properties |-> properties]
JCommand(name, parameters, returns) ==
    [name |-> name, parameters |-> parameters, returns |-> returns]
JEvent(name, description, parameters) ==
    [name |-> name, description |-> description, parameters |-> parameters]
JDomain(domain, dependencies, types, commands, events) ==
    [domain |-> domain, dependencies |-> dependencies, types |-> types,
     commands |-> commands, events |-> events]
JSchema(major, minor, domains) ==
    [version |-> [major |-> major, minor |-> minor], domains |-> domains]

(* The generator script: parsing *)

\* CdpItems.from_json
CdpItems_from_json(type) ==
    LET type_ == IF type.type = <<>> THEN "any" ELSE type.type[1]
        ref == type.ref
    IN  IF type_ = "" \/ ref = <<>> THEN Err("ValueError")
        ELSE [k |-> "items", type |-> type_, ref |-> ref]

\* CdpItems.from_json(x["items"]) if "items" in x else None
ItemsOf(x) == IF x.items = <<>> THEN <<>> ELSE <<CdpItems_from_json(x.items[1])>>

\* CdpProperty.from_json, also of CdpParameter and CdpReturn
CdpProperty_from_json(prop, domain) ==
    IF FirstError(ItemsOf(prop)) # <<>> THEN FirstError(ItemsOf(prop))[1]
    ELSE [k |-> "property", name |-> prop.name, type |-> prop.type, ref |-> prop.ref,
          items |-> ItemsOf(prop), optional |-> prop.optional, domain |-> domain]

\* [CdpProperty.from_json(p, domain) for p in props]
PropertiesOf(props, domain) ==
    [i \in 1..Len(props) |-> CdpProperty_from_json(props[i], domain)]

\* CdpType.from_json: the items are evaluated before the properties
CdpType_from_json(type_, domain) ==
    LET args == ItemsOf(type_) \o PropertiesOf(type_.properties, domain)
    IN  IF FirstError(args) # <<>> THEN FirstError(args)[1]
        ELSE [k |-> "type", id |-> type_.id, type |-> type_.type,
              items |-> ItemsOf(type_), enum |-> type_.enum,
              properties |-> PropertiesOf(type_.properties, domain)]

\* CdpCommand.from_json
CdpCommand_from_json(command, domain) ==
    LET args == PropertiesOf(command.parameters, domain)
                    \o PropertiesOf(command.returns, domain)
    IN  IF FirstError(args) # <<>> THEN FirstError(args)[1]
        ELSE [k |-> "command", name |-> command.name,
              parameters |-> PropertiesOf(command.parameters, domain),
              returns |-> PropertiesOf(command.returns, domain), domain |-> domain]

\* CdpEvent.from_json
CdpEvent_from_json(json, domain) ==
    LET args == PropertiesOf(json.parameters, domain)
    IN  IF FirstError(args) # <<>> THEN FirstError(args)[1]
        ELSE [k |-> "event", name |-> json.name, description |-> json.description,
              parameters |-> args, domain |-> domain]

\* CdpDomain.from_json
CdpDomain_from_json(domain) ==
    LET types == [i \in 1..Len(domain.types) |->
                      CdpType_from_json(domain.types[i], domain.domain)]
        commands == [i \in 1..Len(domain.commands) |->
                         CdpCommand_from_json(domain.commands[i], domain.domain)]
        events == [i \in 1..Len(domain.events) |->
                       CdpEvent_from_json(domain.events[i], domain.domain)]
        args == types \o commands \o events
    IN  IF FirstError(args) # <<>> THEN FirstError(args)[1]
        ELSE [k |-> "domain", domain |-> domain.domain,
              dependencies |-> domain.dependencies,
              types |-> types, commands |-> commands, events |-> events]

\* parse(json_path, output_path): the domains of a document, or the exception;
\* the version is compared with the strings "1" and "3"
parse_AnyVersion(schema) ==
    LET domains == [i \in 1..Len(schema.domains) |->
                        CdpDomain_from_json(schema.domains[i])]
    IN  ListOrError(domains)
parse(schema) ==
    LET domains == [i \in 1..Len(schema.domains) |->
                        CdpDomain_from_json(schema.domains[i])]
    IN  IF <<schema.version.major, schema.version.minor>> # <<"1", "3">>
        THEN Err("AssertionError")
        ELSE ListOrError(domains)

(* The generator script: the patches *)

\* the position of the first element of a sequence with a name, or 0
FirstNamed(seq, field, name) ==
    IF \E i \in 1..Len(seq) : seq[i][field] = name
    THEN CHOOSE i \in 1..Len(seq) :
             seq[i][field] = name /\ \A j \in 1..(i - 1) : seq[j][field] # name
    ELSE 0

\* Patch 1: cmd.parameters[1].ref = "BackendNodeId" on the first resolveNode
Patch1(domain) ==
    LET c == FirstNamed(domain.commands, "name", "resolveNode")
    IN  IF c = 0 THEN domain
        ELSE IF Len(domain.commands[c].parameters) < 2 THEN Err("IndexError")
        ELSE [domain EXCEPT
                 !.commands[c].parameters[2].ref = <<Ref("", "BackendNodeId")>>]

\* the word that stands for a backtick in a description
Backtick == "(backtick)"

\* Patch 2: the backticks are taken out of the description of the first
\* screencastVisibilityChanged; a description that is None becomes ""
Patch2(domain) ==
    LET e == FirstNamed(domain.events, "name", "screencastVisibilityChanged")
        description == domain.events[e].description
    IN  IF e = 0 THEN domain
        ELSE [domain EXCEPT
                 !.events[e].description =
                     <<SelectSeq(IF description # <<>> THEN description[1] ELSE <<>>,
                                 LAMBDA w : w # Backtick)>>]

\* Patch 3: the first property "expires" of every type Cookie is made optional
Patch3Type_Toggle(type) ==
    LET p == FirstNamed(type.properties, "name", "expires")
    IN  IF type.id # "Cookie" \/ p = 0 THEN type
        ELSE [type EXCEPT !.properties[p].optional = ~type.properties[p].optional]
Patch3Type(type) ==
    LET p == FirstNamed(type.properties, "name", "expires")
    IN  IF type.id # "Cookie" \/ p = 0 THEN type
        ELSE [type EXCEPT !.properties[p].optional = TRUE]

Patch3(domain) ==
    [domain EXCEPT !.types = [i \in 1..Len(domain.types) |-> Patch3Type(domain.types[i])]]

\* the body of the loop of fix_protocol_spec
FixDomain(domain) ==
    IF domain.domain = "DOM" THEN Patch1(domain)
    ELSE IF domain.domain = "Page" THEN Patch2(domain)
    ELSE IF domain.domain = "Network" THEN Patch3(domain)
    ELSE domain

\* fix_protocol_spec(domains): the list as the call leaves it, or the exception
fix_protocol_spec(domains) ==
    ListOrError([i \in 1..Len(domains) |-> FixDomain(domains[i])])

(* The generator script: the code it emits, as the declarations of a module *)

\* CdpPrimitiveType.get_annotation
get_annotation(cdp_type) ==
    CASE cdp_type \in {"", "any"} -> "typing.Any"
      [] cdp_type = "boolean" -> "bool"
      [] cdp_type = "integer" -> "int"
      [] cdp_type = "number" -> "float"
      [] cdp_type = "object" -> "dict"
      [] cdp_type = "string" -> "str"

\* ref_to_python(ref)
ref_to_python(ref) ==
    IF ref.domain # "" THEN snake_case(ref.domain) \o "." \o ref.id ELSE ref.id

\* ref_to_python_domain(ref, domain)
ref_to_python_domain(ref, domain) ==
    IF ref.domain = domain THEN ref_to_python(Ref("", ref.id)) ELSE ref_to_python(ref)

\* CdpProperty.py_annotation
py_annotation(p) ==
    LET ann == IF p.items # <<>>
               THEN IF p.items[1].ref # <<>>
                    THEN "typing.List["
                             \o ref_to_python_domain(p.items[1].ref[1], p.domain) \o "]"
                    ELSE "typing.List[" \o get_annotation(p.items[1].type) \o "]"
               ELSE IF p.ref # <<>> THEN ref_to_python_domain(p.ref[1], p.domain)
               ELSE get_annotation(p.type)
    IN  IF p.optional THEN "typing.Optional[" \o ann \o "]" ELSE ann

\* CdpReturn.py_annotation and the type CdpParameter.generate_code writes
py_type(p) ==
    LET ann == IF p.items # <<>>
               THEN IF p.items[1].ref # <<>>
                    THEN "typing.List[" \o ref_to_python(p.items[1].ref[1]) \o "]"
                    ELSE "typing.List[" \o get_annotation(p.items[1].type) \o "]"
               ELSE IF p.ref # <<>> THEN ref_to_python(p.ref[1])
               ELSE get_annotation(p.type)
    IN  IF p.optional THEN "typing.Optional[" \o ann \o "]" ELSE ann

\* a field or parameter of the emitted code: NAME: ANN, with " = None" or not
Decl(name, ann, default) == [name |-> name, ann |-> ann, default |-> default]

\* CdpProperty.generate_decl
generate_decl(p) == Decl(py_name(p), py_annotation(p), p.optional)

\* CdpParameter.generate_decl
CdpParameter_generate_decl(p) == Decl(py_name(p), py_annotation(p), FALSE)

\* CdpParameter.generate_code
CdpParameter_generate_code(p) == Decl(py_name(p), py_type(p), p.optional)

\* the assignment CdpProperty.generate_to_json emits: DICT[key] = NAME
ToJsonAssign(p) == [key |-> p.name, from |-> py_name(p)]

\* the keyword argument generate_from_json emits: NAME=... json[key] ...
FromJsonArg(p) == [kw |-> py_name(p), key |-> p.name]

\* CdpType.generate_class_code
generate_class_code(t) ==
    LET props == SortedByOptional(t.properties)
    IN  [kind |-> "class", name |-> t.id,
         decls |-> [i \in 1..Len(props) |-> generate_decl(props[i])],
         to_json |-> [i \in 1..Len(props) |-> ToJsonAssign(props[i])],
         from_json |-> [i \in 1..Len(props) |-> FromJsonArg(props[i])]]

\* CdpType.generate_primitive_code
generate_primitive_code(t) ==
    [kind |-> "primitive", name |-> t.id,
     py_type |-> IF t.items # <<>>
                 THEN "typing.List["
                          \o (IF t.items[1].ref # <<>> THEN ref_to_python(t.items[1].ref[1])
                              ELSE get_annotation(t.items[1].type)) \o "]"
                 ELSE get_annotation(t.type)]

\* CdpType.generate_enum_code
generate_enum_code(t) == [kind |-> "enum", name |-> t.id, members |-> t.enum]

\* CdpType.generate_code
CdpType_generate_code(t) ==
    IF t.enum # <<>> THEN generate_enum_code(t)
    ELSE IF t.properties # <<>> THEN generate_class_code(t)
    ELSE generate_primitive_code(t)

\* sorted(self.parameters, key=lambda param: 1 if param.optional else 0)
sorted_params_SchemaOrder(parameters) == parameters
sorted_params(parameters) == SortedByOptional(parameters)

\* CdpCommand.generate_code
CdpCommand_generate_code(c) ==
    [kind |-> "def", name |-> snake_case(c.name),
     method |-> c.domain \o "." \o c.name,
     signature |-> [i \in 1..Len(sorted_params(c.parameters)) |-> CdpParameter_generate_code(sorted_params(c.parameters)[i])],
     params |-> [i \in 1..Len(c.parameters) |-> ToJsonAssign(c.parameters[i])],
     returns |-> [i \in 1..Len(c.returns) |-> py_type(c.returns[i])]]

\* inflection.camelize(name, uppercase_first_letter=True) on the event names
camelize(name) ==
    CASE name = "screencastVisibilityChanged" -> "ScreencastVisibilityChanged"
      [] name = "childNodeInserted" -> "ChildNodeInserted"
      [] name = "requestWillBeSent" -> "RequestWillBeSent"

\* CdpEvent.generate_code
CdpEvent_generate_code_Sorted(e) ==
    [kind |-> "event", registered |-> e.domain \o "." \o e.name,
     name |-> camelize(e.name),
     decls |-> [i \in 1..Len(SortedByOptional(e.parameters)) |-> generate_decl(SortedByOptional(e.parameters)[i])],
     from_json |-> [i \in 1..Len(e.parameters) |-> FromJsonArg(e.parameters[i])]]
CdpEvent_generate_code(e) ==
    [kind |-> "event", registered |-> e.domain \o "." \o e.name,
     name |-> camelize(e.name),
     decls |-> [i \in 1..Len(e.parameters) |-> CdpParameter_generate_decl(e.parameters[i])],
     from_json |-> [i \in 1..Len(e.parameters) |-> FromJsonArg(e.parameters[i])]]

\* the refs of a list of properties: the ref of the items before the ref
PropertyRefs(props) ==
    UNION {IF props[i].items # <<>> /\ props[i].items[1].ref # <<>>
           THEN {props[i].items[1].ref[1]}
           ELSE IF props[i].ref # <<>> THEN {props[i].ref[1]} ELSE {} :
           i \in 1..Len(props)}

\* CdpType.get_refs
CdpType_get_refs(t) ==
    IF t.enum # <<>> THEN {}
    ELSE IF t.properties # <<>> THEN PropertyRefs(t.properties)
    ELSE IF t.items # <<>> /\ t.items[1].ref # <<>> THEN {t.items[1].ref[1]}
    ELSE {}

\* CdpCommand.get_refs
CdpCommand_get_refs_Parameters(c) == PropertyRefs(c.parameters)
CdpCommand_get_refs(c) == PropertyRefs(c.parameters \o c.returns)

\* CdpEvent.get_refs
CdpEvent_get_refs(e) == PropertyRefs(e.parameters)

\* CdpDomain.generate_imports: the modules of the "from . import" lines
generate_imports(d) ==
    LET refs == UNION ({CdpType_get_refs(d.types[i]) : i \in 1..Len(d.types)}
                       \cup {CdpCommand_get_refs(d.commands[i]) :
                                i \in 1..Len(d.commands)}
                       \cup {CdpEvent_get_refs(d.events[i]) : i \in 1..Len(d.events)})
    IN  {snake_case(r.domain) : r \in {q \in refs : q.domain \notin {"", d.domain}}}

\* CdpDomain.module
module(d) == snake_case(d.domain)

\* CdpDomain.generate_code, in the file main writes it to
CdpDomain_generate_code(d) ==
    [path |-> module(d) \o ".py", imports |-> generate_imports(d),
     items |-> [i \in 1..Len(d.types) |-> CdpType_generate_code(d.types[i])]
                   \o [i \in 1..Len(d.commands) |-> CdpCommand_generate_code(d.commands[i])]
                   \o [i \in 1..Len(d.events) |-> CdpEvent_generate_code(d.events[i])]]

\* generate_init(init_path, domains)
generate_init(domains) ==
    [path |-> "__init__.py", imports |-> {},
     items |-> [i \in 1..Len(domains) |-> module(domains[i])]]

(* The generator script: the documents of the model *)

\* the properties and parameters the documents draw from
Props ==
    {JProperty("nodeId", "", <<Ref("", "NodeId")>>, <<>>, FALSE),
     JProperty("type", "string", <<>>, <<>>, TRUE),
     JProperty("class", "string", <<>>, <<>>, FALSE),
     JProperty("names", "array", <<>>, <<JItems(<<"string">>, <<>>)>>, TRUE),
     JProperty("frameId", "", <<Ref("Page", "FrameId")>>, <<>>, FALSE),
     JProperty("objects", "array", <<>>,
               <<JItems(<<>>, <<Ref("Runtime", "RemoteObject")>>)>>, TRUE),
     JProperty("backendNodeId", "", <<Ref("DOM", "BackendNodeId")>>, <<>>, TRUE)}

\* the lists of at most MaxProps different properties
PropLists ==
    {ps \in UNION {[1..n -> Props] : n \in 0..MaxProps} :
        \A i, j \in 1..Len(ps) : i # j => ps[i] # ps[j]}

\* a list every part of the generator accepts
StandardProps ==
    <<JProperty("backendNodeId", "", <<Ref("DOM", "BackendNodeId")>>, <<>>, TRUE),
      JProperty("frameId", "", <<Ref("Page", "FrameId")>>, <<>>, FALSE),
      JProperty("objects", "array", <<>>,
                <<JItems(<<>>, <<Ref("Runtime", "RemoteObject")>>)>>, TRUE)>>

\* the parameters of DOM.resolveNode as the official description has them, the
\* second with the "$ref" that Patch 1 replaces, and shorter lists
ResolveNodeParams ==
    <<JProperty("nodeId", "", <<Ref("", "NodeId")>>, <<>>, TRUE),
      JProperty("backendNodeId", "", <<Ref("DOM", "BackendNodeId")>>, <<>>, TRUE),
      JProperty("objectGroup", "string", <<>>, <<>>, TRUE)>>
ResolveNodeLists == {SubSeq(ResolveNodeParams, 1, n) : n \in 1..3}

\* the description of Page.screencastVisibilityChanged: none, or its words
Descriptions ==
    {<<>>, <<<<"Fired", "when", "shown">>>>,
     <<<<"Fired", "when", "shown", "or", "hidden", Backtick, ".">>>>,
     <<<<Backtick, "Fired", Backtick>>>>}

\* the "items" of the primitive alias DOM.Quad: none (the alias is a number),
\* a kind, a "$ref"
AliasItems ==
    {<<>>, <<JItems(<<"number">>, <<>>)>>, <<JItems(<<>>, <<Ref("", "NodeId")>>)>>,
     <<JItems(<<>>, <<Ref("Page", "FrameId")>>)>>}

\* the dependencies DOM declares
Dependencies == {<<>>, <<"Runtime">>, <<"Network", "DOM">>}

DOMDomain(ps, resolve, items, deps) ==
    JDomain("DOM", deps,
            <<JType("NodeId", "integer", <<>>, <<>>, <<>>),
              JType("BackendNodeId", "integer", <<>>, <<>>, <<>>),
              JType("Quad", IF items = <<>> THEN "number" ELSE "array", items, <<>>, <<>>),
              JType("PseudoType", "string", <<>>, <<"before", "after">>, <<>>),
              JType("Node", "object", <<>>, <<>>, ps)>>,
            <<JCommand("describeNode", ps, ps),
              JCommand("resolveNode", resolve,
                       <<JProperty("object", "", <<Ref("Runtime", "RemoteObject")>>,
                                   <<>>, FALSE)>>)>>,
            <<JEvent("childNodeInserted", <<>>, ps)>>)

NetworkDomain(expiresOptional) ==
    JDomain("Network", <<>>,
            <<JType("Cookie", "object", <<>>, <<>>,
                    <<JProperty("name", "string", <<>>, <<>>, FALSE),
                      JProperty("expires", "number", <<>>, <<>>, expiresOptional),
                      JProperty("size", "integer", <<>>, <<>>, FALSE)>>)>>,
            <<JCommand("getCookies", <<>>,
                       <<JProperty("cookies", "array", <<>>,
                                   <<JItems(<<>>, <<Ref("", "Cookie")>>)>>, FALSE)>>)>>,
            <<JEvent("requestWillBeSent", <<>>,
                     <<JProperty("frameId", "", <<Ref("Page", "FrameId")>>, <<>>, TRUE),
                       JProperty("type", "string", <<>>, <<>>, FALSE)>>)>>)

PageDomain(description) ==
    JDomain("Page", <<"DOM", "Network">>,
            <<JType("FrameId", "string", <<>>, <<>>, <<>>)>>,
            <<>>,
            <<JEvent("screencastVisibilityChanged", description,
                     <<JProperty("visible", "boolean", <<>>, <<>>, FALSE)>>)>>)

RuntimeDomain ==
    JDomain("Runtime", <<>>,
            <<JType("RemoteObject", "object", <<>>, <<>>,
                    <<JProperty("type", "string", <<>>, <<>>, FALSE),
                      JProperty("objectId", "string", <<>>, <<>>, TRUE)>>)>>,
            <<>>, <<>>)

\* browser_protocol.json and js_protocol.json
BrowserProtocol(version, ps, resolve, items, deps, description, expiresOptional) ==
    JSchema(version[1], version[2],
            <<PageDomain(description), NetworkDomain(expiresOptional),
              DOMDomain(ps, resolve, items, deps)>>)
JsProtocol(version) == JSchema(version[1], version[2], <<RuntimeDomain>>)

\* the versions a document declares
Versions == {<<"1", "3">>, <<"1", "2">>, <<"2", "3">>}

\* the two documents of a run: every list of properties, every pair of
\* versions, every shape of the patched places
Documents ==
    {<<BrowserProtocol(<<"1", "3">>, ps, ResolveNodeParams, <<>>, <<>>,
                       <<<<"Fired">>>>, FALSE),
       JsProtocol(<<"1", "3">>)>> : ps \in PropLists}
    \cup {<<BrowserProtocol(v, StandardProps, ResolveNodeParams, <<>>, <<"Runtime">>,
                            <<<<"Fired">>>>, FALSE),
            JsProtocol(w)>> : v \in Versions, w \in Versions}
    \cup {<<BrowserProtocol(<<"1", "3">>, StandardProps, r, i, d, t, e),
            JsProtocol(<<"1", "3">>)>> :
            r \in ResolveNodeLists, i \in AliasItems, d \in Dependencies,
            t \in Descriptions, e \in BOOLEAN}

\* what the output directory holds before the run
NoFiles == {}
File(path, imports, items) == [path |-> path, imports |-> imports, items |-> items]
OldFiles == {File("dom.py", {}, <<>>), File("__init__.py", {}, <<>>),
             File("util.py", {}, <<>>), File("css.py", {}, <<>>)}

(* The generator script: main *)

\* domains.sort(key=operator.attrgetter("domain")): a stable sort, upper-case
\* letters in code point order
SortedByDomain(domains) ==
    SelectSeq(domains, LAMBDA d : d.domain = "DOM")
        \o SelectSeq(domains, LAMBDA d : d.domain = "Network")
        \o SelectSeq(domains, LAMBDA d : d.domain = "Page")
        \o SelectSeq(domains, LAMBDA d : d.domain = "Runtime")

\* the files main writes after the modules
UtilFiles ==
    {File("README.md", {}, <<>>), File("py.typed", {}, <<>>),
     File("util.py", {},
          <<"T_JSON_DICT", "_event_parsers", "event_class", "parse_json_event">>)}

\* a file written into a directory replaces the file of that path
Written(out, files) ==
    {f \in out : \A g \in files : g.path # f.path} \cup files

\* main raises: the finally clause unlinks the documents
Raised(r, e) == [r EXCEPT !.pc = "failed", !.err = e, !.json_present = FALSE]

\* no facade call has been made
DomIdle ==
    /\ live = Page(1, TRUE, TRUE)
    /\ elem = <<>>
    /\ last = NoCall
    /\ other = <<>>
    /\ eqres = <<>>

\* main is called; old is what the output directory held then
MainInit ==
    /\ \E docs \in Documents : \E old \in {NoFiles, OldFiles} :
          run = [pc |-> "start", json |-> docs, json_present |-> TRUE, out |-> old,
                 old |-> old,
                 n |-> 0, parsed |-> <<>>, fixed |-> FALSE, domains |-> <<>>,
                 w |-> 0, err |-> ""]
    /\ DomIdle
    /\ SendInit
    /\ GenInit
    /\ TabInit
    /\ FindInit

\* the output directory is removed and made again, before the try statement
MainStart_KeepsOutput ==
    /\ run.pc = "start"
    /\ run' = [run EXCEPT !.pc = "parse"]
    /\ UNCHANGED notRun
MainStart ==
    /\ run.pc = "start"
    /\ run' = [run EXCEPT !.pc = "parse", !.out = NoFiles]
    /\ UNCHANGED notRun

\* domains.extend(parse(json_path, output_path)) for the next document
MainParse ==
    /\ run.pc = "parse"
    /\ LET r == parse(run.json[run.n + 1])
       IN  run' = IF IsErr(r) THEN Raised(run, r.v)
                  ELSE [run EXCEPT !.n = run.n + 1,
                                   !.parsed = run.parsed \o r.v,
                                   !.pc = IF run.n + 1 = Len(run.json)
                                          THEN "fix" ELSE "parse"]
    /\ UNCHANGED notRun

\* domains.sort(...); fix_protocol_spec(domains)
MainFix ==
    /\ run.pc = "fix"
    /\ LET r == fix_protocol_spec(SortedByDomain(run.parsed))
       IN  run' = IF IsErr(r) THEN Raised(run, r.v)
                  ELSE [run EXCEPT !.fixed = TRUE, !.domains = r.v, !.pc = "write"]
    /\ UNCHANGED notRun

\* the module of the next domain is written
MainWriteModule ==
    /\ run.pc = "write"
    /\ run.w < Len(run.domains)
    /\ run' = [run EXCEPT
                  !.w = run.w + 1,
                  !.out = Written(run.out,
                                  {CdpDomain_generate_code(run.domains[run.w + 1])})]
    /\ UNCHANGED notRun

\* generate_init, README.md, py.typed, util.py and format(output_path), which
\* raises when the formatter fails; then the finally clause
MainWriteIndex ==
    /\ run.pc = "write"
    /\ run.w = Len(run.domains)
    /\ \E formatted \in BOOLEAN :
          LET r == [run EXCEPT !.out = Written(run.out,
                                               {generate_init(run.domains)}
                                                   \cup UtilFiles)]
          IN  run' = IF formatted
                     THEN [r EXCEPT !.pc = "done", !.json_present = FALSE]
                     ELSE Raised(r, "CalledProcessError")
    /\ UNCHANGED notRun

MainNext ==
    \/ MainStart
    \/ MainParse
    \/ MainFix
    \/ MainWriteModule
    \/ MainWriteIndex

SpecMain == MainInit /\ [][MainNext]_vars

----------------------------------------------------------------------------
(* Claims about the generator script *)

IsVersion13(schema) == schema.version = [major |-> "1", minor |-> "3"]

\* one of the documents of the run declares another version than 1.3
BadVersion == \E i \in 1..Len(run.json) : ~IsVersion13(run.json[i])

\* the files of the output directory that main has written: the directory is
\* emptied by the first step
WrittenFiles == IF run.pc = "start" THEN NoFiles ELSE run.out

\* C11: when one of the two documents declares a version other than 1.3, the
\* run never gets past the parse of that document (parse raises there and main
\* ends with the error) and main writes no file at all: no module of a
\* domain, no __init__.py, no util.py
C11_VersionGate ==
    BadVersion =>
        /\ run.pc \in {"start", "parse", "failed"}
        /\ \A i \in 1..run.n : IsVersion13(run.json[i])
        /\ run.pc = "failed" => run.err = "AssertionError"
        /\ ~run.fixed
        /\ WrittenFiles = NoFiles

\* the second document has the wrong version: main has parsed the first one,
\* has ended with the assertion error and the output directory is empty
C11_Witness ==
    /\ run.pc = "failed" /\ run.err = "AssertionError"
    /\ run.n = 1 /\ IsVersion13(run.json[1]) /\ ~IsVersion13(run.json[2])
    /\ run.out = NoFiles

\* the names of a list of properties, in order
Names(props) == [i \in 1..Len(props) |-> props[i].name]

\* the properties, parameters, commands and events of a domain list by name,
\* in order
Shape(domains) ==
    [d \in 1..Len(domains) |->
        [domain |-> domains[d].domain,
         types |-> [i \in 1..Len(domains[d].types) |->
                       <<domains[d].types[i].id, Names(domains[d].types[i].properties)>>],
         commands |-> [i \in 1..Len(domains[d].commands) |->
                          <<domains[d].commands[i].name,
                            Names(domains[d].commands[i].parameters),
                            Names(domains[d].commands[i].returns)>>],
         events |-> [i \in 1..Len(domains[d].events) |->
                        <<domains[d].events[i].name,
                          Names(domains[d].events[i].parameters)>>]]]

\* the three patched places of a domain list hold what the patches put there
Patched(domains) ==
    \A d \in 1..Len(domains) :
        LET c == FirstNamed(domains[d].commands, "name", "resolveNode")
            e == FirstNamed(domains[d].events, "name", "screencastVisibilityChanged")
        IN  /\ domains[d].domain = "DOM" /\ c # 0 =>
                   domains[d].commands[c].parameters[2].ref
                       = <<Ref("", "BackendNodeId")>>
            /\ domains[d].domain = "Page" /\ e # 0 =>
                   /\ domains[d].events[e].description # <<>>
                   /\ \A w \in 1..Len(domains[d].events[e].description[1]) :
                          domains[d].events[e].description[1][w] # Backtick
            /\ domains[d].domain = "Network" =>
                   \A t \in 1..Len(domains[d].types) :
                       LET p == FirstNamed(domains[d].types[t].properties,
                                           "name", "expires")
                       IN  domains[d].types[t].id = "Cookie" /\ p # 0 =>
                               domains[d].types[t].properties[p].optional

\* the sorted domain list of a run whose documents are all parsed
ParsedDomains == SortedByDomain(run.parsed)

\* C12: fix_protocol_spec is called after the last document is parsed and
\* before the first module is written; on every parsed domain list it can be
\* applied to, a second application returns what the first returned, the
\* three patched places hold BackendNodeId, a description without backticks
\* and an optional expires, and the names of the types, properties, commands,
\* parameters, returns and events are the same, in the same order, as before
C12_FixIdempotent ==
    /\ run.fixed => run.n = Len(run.json)
    /\ WrittenFiles # NoFiles => run.fixed
    /\ run.n = Len(run.json) =>
           LET once == fix_protocol_spec(ParsedDomains)
           IN  ~IsErr(once) =>
                   /\ fix_protocol_spec(once.v) = once
                   /\ Patched(once.v)
                   /\ Shape(once.v) = Shape(ParsedDomains)
                   /\ run.fixed => run.domains = once.v

\* a run whose parsed list had a self reference in resolveNode, a backtick in
\* the description and a required expires: main has patched the three and
\* has written a module
C12_Witness ==
    /\ run.fixed /\ run.w > 0
    /\ ~Patched(ParsedDomains)
    /\ \E d \in 1..Len(ParsedDomains) :
          /\ ParsedDomains[d].domain = "Page"
          /\ ParsedDomains[d].events[1].description # <<>>
          /\ \E w \in 1..Len(ParsedDomains[d].events[1].description[1]) :
                ParsedDomains[d].events[1].description[1][w] = Backtick
    /\ \E d \in 1..Len(ParsedDomains) :
          /\ ParsedDomains[d].domain = "Network"
          /\ ~ParsedDomains[d].types[1].properties[2].optional
    /\ run.domains # ParsedDomains

\* the domains whose module main has written, and the module of one of them
WrittenDomains == 1..run.w
ModuleOf(d) == CHOOSE f \in run.out : f.path = module(d) \o ".py"

\* the position of the property that a declaration of the emitted code
\* declares
PropOf(props, decl) == CHOOSE i \in 1..Len(props) : py_name(props[i]) = decl.name

\* the declarations declare the properties, each once, the required ones
\* before the optional ones and else in the order of the properties
RequiredFirst(decls, props) ==
    /\ Len(decls) = Len(props)
    /\ \A i \in 1..Len(props) : \E a \in 1..Len(decls) : decls[a].name = py_name(props[i])
    /\ \A a, b \in 1..Len(decls) :
          a < b =>
              LET i == PropOf(props, decls[a])
                  j == PropOf(props, decls[b])
              IN  /\ props[i].optional => props[j].optional
                  /\ props[i].optional = props[j].optional => i < j

IsObjectType(t) == t.enum = <<>> /\ t.properties # <<>>

\* C13: in every written module, the dataclass of every object type declares
\* the required properties before the optional ones and the signature of
\* every command has the required parameters before the optional ones; the
\* required ones among themselves and the optional ones among themselves
\* stand in the order of the description
C13_RequiredFirst ==
    \A k \in WrittenDomains :
        LET d == run.domains[k]
            f == ModuleOf(d)
        IN  /\ \A i \in 1..Len(d.types) :
                   IsObjectType(d.types[i]) =>
                       /\ f.items[i].kind = "class"
                       /\ RequiredFirst(f.items[i].decls, d.types[i].properties)
            /\ \A i \in 1..Len(d.commands) :
                   /\ f.items[Len(d.types) + i].kind = "def"
                   /\ RequiredFirst(f.items[Len(d.types) + i].signature,
                                    d.commands[i].parameters)

\* the module of a domain is written in which an object type and a command
\* have an optional property (parameter) before a required one and two
\* required ones
C13_Witness ==
    \E k \in WrittenDomains :
        LET d == run.domains[k]
        IN  /\ \E i \in 1..Len(d.types) :
                  /\ IsObjectType(d.types[i])
                  /\ Len(d.types[i].properties) = 3
                  /\ d.types[i].properties[1].optional
                  /\ ~d.types[i].properties[2].optional
                  /\ ~d.types[i].properties[3].optional
            /\ \E i \in 1..Len(d.commands) :
                  /\ Len(d.commands[i].parameters) = 3
                  /\ d.commands[i].parameters[1].optional
                  /\ ~d.commands[i].parameters[2].optional
                  /\ ~d.commands[i].parameters[3].optional

\* the item of a written module that the event e of domain d was emitted as
EventItem(d, e) == ModuleOf(d).items[Len(d.types) + Len(d.commands) + e]

\* C14 as stated: the dataclass of every event declares the required
\* parameters before the optional ones in the way of an object type, an
\* optional parameter has the default None so that it can be left out when
\* the event is constructed, and the class is registered under Domain.name
C14_EventAsObjectType ==
    \A k \in WrittenDomains :
        LET d == run.domains[k]
        IN  \A e \in 1..Len(d.events) :
                LET item == EventItem(d, e)
                    params == d.events[e].parameters
                IN  /\ item.kind = "event"
                    /\ item.registered = d.domain \o "." \o d.events[e].name
                    /\ RequiredFirst(item.decls, params)
                    /\ \A a \in 1..Len(item.decls) :
                           params[PropOf(params, item.decls[a])].optional
                               => item.decls[a].default

\* C14 as the code has it: the dataclass of every event declares the
\* parameters in the order of the description, not sorted, and none with a
\* default, so that every parameter is an argument the constructor requires;
\* from_json passes every parameter by keyword from the key of its original
\* name; the class is registered under Domain.name
C14_EventSchemaOrder ==
    \A k \in WrittenDomains :
        LET d == run.domains[k]
        IN  \A e \in 1..Len(d.events) :
                LET item == EventItem(d, e)
                    params == d.events[e].parameters
                IN  /\ item.kind = "event"
                    /\ item.registered = d.domain \o "." \o d.events[e].name
                    /\ Len(item.decls) = Len(params)
                    /\ Len(item.from_json) = Len(params)
                    /\ \A a \in 1..Len(params) :
                           /\ item.decls[a].name = py_name(params[a])
                           /\ ~item.decls[a].default
                           /\ item.from_json[a].kw = item.decls[a].name
                           /\ item.from_json[a].key = params[a].name

\* the module of a domain is written that has an event with an optional
\* parameter before a required one
C14_Witness ==
    \E k \in WrittenDomains :
        LET d == run.domains[k]
        IN  \E e \in 1..Len(d.events) :
                /\ EventItem(d, e).kind = "event"
                /\ Len(d.events[e].parameters) >= 2
                /\ d.events[e].parameters[1].optional
                /\ ~d.events[e].parameters[2].optional

\* the lower-snake names that are reserved in Python: the keywords and the
\* names of builtins
Reserved == Builtins \cup Keywords

\* the identifier a property gets when every reserved name is escaped
Escaped(name) ==
    IF underscore(name) \in Reserved THEN underscore(name) \o "_" ELSE underscore(name)

\* the declarations declare the property p under its escaped name, and the
\* assignments (of to_json or of the command's params) write it under the key
\* of its original name
DeclaresAs(decls, assigns, p) ==
    /\ \E a \in 1..Len(decls) : decls[a].name = Escaped(p.name)
    /\ \E a \in 1..Len(assigns) :
          assigns[a].key = p.name /\ assigns[a].from = Escaped(p.name)

\* C15: in every written module every property of an object type and every
\* parameter of a command whose lower-snake name is reserved is declared with
\* a trailing underscore (type as type_, class as class_), every other under
\* its lower-snake name, and to_json and the command's params write each of
\* them under the key of its original name
C15_ReservedGetsUnderscore ==
    \A k \in WrittenDomains :
        LET d == run.domains[k]
            f == ModuleOf(d)
        IN  /\ \A i \in 1..Len(d.types) :
                   IsObjectType(d.types[i]) =>
                       \A p \in 1..Len(d.types[i].properties) :
                           DeclaresAs(f.items[i].decls, f.items[i].to_json,
                                      d.types[i].properties[p])
            /\ \A i \in 1..Len(d.commands) :
                   \A p \in 1..Len(d.commands[i].parameters) :
                       DeclaresAs(f.items[Len(d.types) + i].signature,
                                  f.items[Len(d.types) + i].params,
                                  d.commands[i].parameters[p])

\* the "items" objects of a list of JSON properties
PropertyItems(props) ==
    {props[i].items[1] : i \in {j \in 1..Len(props) : props[j].items # <<>>}}

\* the "items" objects of a document: of the primitive aliases, the
\* properties, the parameters and the returns
ItemsIn(schema) ==
    UNION {UNION ({IF d.types[i].items # <<>> THEN {d.types[i].items[1]} ELSE {} :
                      i \in 1..Len(d.types)}
                  \cup {PropertyItems(d.types[i].properties) : i \in 1..Len(d.types)}
                  \cup {PropertyItems(d.commands[i].parameters) :
                           i \in 1..Len(d.commands)}
                  \cup {PropertyItems(d.commands[i].returns) : i \in 1..Len(d.commands)}
                  \cup {PropertyItems(d.events[i].parameters) : i \in 1..Len(d.events)}) :
           d \in {schema.domains[k] : k \in 1..Len(schema.domains)}}

\* the annotation of an ordered sequence of a primitive kind
ListOf(kind) == "typing.List[" \o get_annotation(kind) \o "]"

\* C16: the parse of a document raises a ValueError about "items" only when
\* an "items" of the document names its element type neither by a primitive
\* kind nor by a "$ref", and a property whose items declare the primitive
\* kind X and no "$ref" is declared in the written module as a list of X
C16_PrimitiveItemsAccepted ==
    /\ run.pc = "failed" /\ run.err = "ValueError" =>
           \E items \in ItemsIn(run.json[run.n + 1]) :
               items.type = <<>> /\ items.ref = <<>>
    /\ \A k \in WrittenDomains :
           LET d == run.domains[k]
           IN  \A i \in 1..Len(d.types) : \A p \in 1..Len(d.types[i].properties) :
                   LET prop == d.types[i].properties[p]
                   IN  /\ IsObjectType(d.types[i])
                       /\ prop.items # <<>>
                       /\ prop.items[1].ref = <<>>
                       => \E a \in 1..Len(ModuleOf(d).items[i].decls) :
                              /\ ModuleOf(d).items[i].decls[a].name = py_name(prop)
                              /\ ModuleOf(d).items[i].decls[a].ann
                                     \in {ListOf(prop.items[1].type),
                                          "typing.Optional["
                                              \o ListOf(prop.items[1].type) \o "]"}

\* every "$ref" of a list of properties, of the property or of its items
RefsOf(props) ==
    UNION {(IF props[i].ref # <<>> THEN {props[i].ref[1]} ELSE {})
               \cup (IF props[i].items # <<>> /\ props[i].items[1].ref # <<>>
                     THEN {props[i].items[1].ref[1]} ELSE {}) :
           i \in 1..Len(props)}

\* every "$ref" of a domain: of its types (aliases and properties), of the
\* parameters and returns of its commands and of the parameters of its events
AllRefs(d) ==
    UNION ({IF d.types[i].items # <<>> /\ d.types[i].items[1].ref # <<>>
            THEN {d.types[i].items[1].ref[1]} ELSE {} : i \in 1..Len(d.types)}
           \cup {RefsOf(d.types[i].properties) : i \in 1..Len(d.types)}
           \cup {RefsOf(d.commands[i].parameters) : i \in 1..Len(d.commands)}
           \cup {RefsOf(d.commands[i].returns) : i \in 1..Len(d.commands)}
           \cup {RefsOf(d.events[i].parameters) : i \in 1..Len(d.events)})

\* the other domains that a "Domain.TypeId" of the domain names
ForeignDomains(d) == {r.domain : r \in {q \in AllRefs(d) : q.domain \notin {"", d.domain}}}

\* C17: the imports of every written module are the modules of the foreign
\* domains that a Domain.TypeId reference of the domain names, in a type, a
\* parameter or return of a command or a parameter of an event, the items
\* included; the declared dependencies play no part, and no module imports
\* itself
C17_ImportsAreForeignRefs ==
    \A k \in WrittenDomains :
        LET d == run.domains[k]
        IN  /\ ModuleOf(d).imports = {snake_case(x) : x \in ForeignDomains(d)}
            /\ module(d) \notin ModuleOf(d).imports

\* the module of DOM is written: DOM declares Network, which it does not
\* refer to, and itself as dependencies, refers to itself by
\* DOM.BackendNodeId, to Page in a parameter of an event and to Runtime in the
\* items of a parameter of an event
C17_Witness ==
    \E k \in WrittenDomains :
        LET d == run.domains[k]
        IN  /\ d.domain = "DOM"
            /\ d.dependencies = <<"Network", "DOM">>
            /\ ModuleOf(d).imports = {"runtime", "page"}
            /\ \E r \in AllRefs(d) : r.domain = "DOM"
            /\ \E i \in 1..Len(d.events) : \E p \in 1..Len(d.events[i].parameters) :
                   /\ d.events[i].parameters[p].items # <<>>
                   /\ d.events[i].parameters[p].items[1].ref[1].domain = "Runtime"

----------------------------------------------------------------------------
(* Tab.find_elements_by_text and Tab.find_element_by_text                  *)

\* the longest list of node ids the browser reports for a search
MaxHits == 2

\* the page of the text search: a BUTTON, a DIV with a SPAN, an INPUT with a
\* placeholder and, with hasFrame, an IFRAME with a P; with parentIds the
\* text of the BUTTON carries the node id of its parent
SearchText(nid, value, pid) == Node(nid, nid, 3, "#text", value, <<>>, <<>>, <<>>, pid)
SearchDoc(hasFrame, parentIds) ==
    Node(70, 170, 9, "#document", "",
         <<Node(71, 71, 1, "BUTTON", "",
                <<SearchText(72, "login", IF parentIds THEN 71 ELSE 0)>>,
                <<>>, <<>>, 70),
           Node(73, 73, 1, "DIV", "",
                <<SearchText(74, "login here", 73),
                  Node(75, 75, 1, "SPAN", "", <<SearchText(76, "login", 75)>>,
                       <<>>, <<>>, 73)>>,
                <<>>, <<>>, 70),
           Node(77, 77, 1, "INPUT", "", <<>>, <<"placeholder", "login">>, <<>>, 70)>>
         \o (IF hasFrame
             THEN <<Node(78, 78, 1, "IFRAME", "", <<>>, <<>>,
                         <<Node(79, 179, 9, "#document", "",
                                <<Node(80, 80, 1, "P", "",
                                       <<SearchText(81, "Login", 80)>>,
                                       <<>>, <<>>, 79)>>,
                                <<>>, <<>>, 78)>>,
                         70)>>
             ELSE <<>>),
         <<>>, <<>>, 0)
SearchDocs == {SearchDoc(f, p) : f \in BOOLEAN, p \in BOOLEAN}

\* the node ids a search can report: text nodes, the INPUT, a text node in
\* the frame, and a node the browser has dropped since
HitIds == {72, 74, 76, 77, 81, 99}
HitLists ==
    {h \in UNION {[1..n -> HitIds] : n \in 0..MaxHits} :
        \A i, j \in 1..Len(h) : i # j => h[i] # h[j]}

\* the texts the user searches for, and str.strip, str.lower and the "in" of
\* strings on them and on the texts of the page
Texts == {"login", " login "}
strip(text) == IF text = " login " THEN "login" ELSE text
lower(text) == IF text = "Login" THEN "login" ELSE text
Contains(needle, text) ==
    \/ needle = text
    \/ needle = "login" /\ text = "login here"

\* Element.text_all: " ".join of the values of the text nodes below the node
RECURSIVE Join(_)
Join(values) ==
    IF values = <<>> THEN ""
    ELSE IF Len(values) = 1 THEN values[1]
    ELSE values[1] \o " " \o Join(Tail(values))
text_all(el) ==
    LET text_nodes == SelectSeq(SubtreeSeq(el.node.children), LAMBDA n : n.node_type = 3)
    IN  Join([i \in 1..Len(text_nodes) |-> text_nodes[i].node_value])

\* Element.parent as an Element, or None
ParentElement(el) ==
    IF ElementParent(el) = <<>> THEN <<>>
    ELSE <<Element(ElementParent(el)[1], el.tab, el.tree)>>

\* one pass of the loop "for nid in node_ids" of find_elements_by_text on the
\* fetched document doc, the browser holding d: the commands sent, the item
\* appended (none when the node id is skipped) and the exception raised
ResolveHit(nid, doc, d) ==
    LET node == filter_recurse(doc, "node_id", nid)
        el   == Element(node[1], "tabA", <<doc>>)
        u    == ElementUpdate(el, <<>>, d)
    IN  IF node = <<>>
        THEN [sent |-> <<Cmd("DOM.resolveNode", nid)>>, item |-> <<>>, err |-> <<>>]
        ELSE IF el.node.node_type # 3
        THEN [sent |-> <<>>, item |-> <<el>>, err |-> <<>>]
        ELSE IF ParentElement(el) # <<>>
        THEN [sent |-> <<>>, item |-> ParentElement(el), err |-> <<>>]
        ELSE IF u.err # <<>>
        THEN [sent |-> u.sent, item |-> <<>>, err |-> u.err]
        ELSE [sent |-> u.sent,
              item |-> IF ParentElement(u.h) # <<>> THEN ParentElement(u.h) ELSE <<u.h>>,
              err |-> <<>>]

\* the parents of the text nodes of the frames of doc that contain the text
RECURSIVE Flatten(_)
Flatten(seqs) == IF seqs = <<>> THEN <<>> ELSE Head(seqs) \o Flatten(Tail(seqs))
IframeItems(text, doc) ==
    LET iframes == SelectSeq(SubtreeSeq(doc.children), LAMBDA n : n.node_name = "IFRAME")
        OfFrame(iframe) ==
            LET iframe_elem == Element(iframe, "tabA", iframe.content_document)
                text_nodes ==
                    SelectSeq(ElemSubtreeSeq(ElemChildren(iframe)),
                              LAMBDA n : /\ n.node_type = 3
                                         /\ Contains(lower(text), lower(n.node_value)))
                parents ==
                    [i \in 1..Len(text_nodes) |->
                        ParentElement(Element(text_nodes[i], "tabA", iframe_elem.tree))]
            IN  IF iframe.content_document = <<>> THEN <<>> ELSE Flatten(parents)
    IN  Flatten([i \in 1..Len(iframes) |-> OfFrame(iframes[i])])

\* min(items, key=lambda el: abs(len(text) - len(el.text_all))): the first of
\* the items with the least key
Abs(n) == IF n < 0 THEN -n ELSE n
LengthKey(text, el) == Abs(Len(text) - Len(text_all(el)))
closest_by_length_Last(text, items) ==
    items[CHOOSE i \in 1..Len(items) :
              /\ \A j \in 1..Len(items) : LengthKey(text, items[i]) <= LengthKey(text, items[j])
              /\ \A j \in (i + 1)..Len(items) :
                     LengthKey(text, items[j]) > LengthKey(text, items[i])]
closest_by_length(text, items) ==
    items[CHOOSE i \in 1..Len(items) :
              /\ \A j \in 1..Len(items) : LengthKey(text, items[i]) <= LengthKey(text, items[j])
              /\ \A j \in 1..(i - 1) : LengthKey(text, items[j]) > LengthKey(text, items[i])]

\* what find_element_by_text makes of the items: None, the closest by length
\* or the first; return_enclosing_element is not looked at
ElementByText(text, best_match, return_enclosing_element, items) ==
    IF items = <<>> THEN <<>>
    ELSE IF best_match THEN <<closest_by_length(text, items)>>
    ELSE <<items[1]>>

\* the search ids the browser hands out
SearchIds == {"search1", "search2"}

\* the state of a call that has sent cmd
Sent(cmd) == [srch EXCEPT !.sent = Append(srch.sent, cmd)]

\* the text search on its own: the tab shows one of the pages
SearchInit ==
    /\ live \in SearchDocs
    /\ srch = NoSearch
    /\ elem = <<>>
    /\ last = NoCall
    /\ other = <<>>
    /\ eqres = <<>>
    /\ SendInit
    /\ GenInit
    /\ TabInit
    /\ RunInit

\* the user calls find_elements_by_text(text) or find_element_by_text(text,
\* best_match, return_enclosing_element)
FindCall ==
    /\ srch = NoSearch
    /\ \E text \in Texts, element \in BOOLEAN, best_match \in BOOLEAN,
          return_enclosing_element \in BOOLEAN :
          /\ ~element => ~best_match /\ return_enclosing_element
          /\ srch' = [pc |-> "get_document",
                      op |-> IF element THEN "find_element_by_text"
                             ELSE "find_elements_by_text",
                      text |-> text, best_match |-> best_match,
                      return_enclosing_element |-> return_enclosing_element,
                      doc |-> <<>>, search_id |-> "", hits |-> <<>>, node_ids |-> <<>>,
                      i |-> 0, sent |-> <<>>, items |-> <<>>, ret |-> <<>>, err |-> <<>>]
    /\ UNCHANGED notFind

\* doc = await self.send(cdp.dom.get_document(-1, True))
FindGetDocument ==
    /\ srch.pc = "get_document"
    /\ srch' = [Sent(Cmd("DOM.getDocument", -1)) EXCEPT
                   !.doc = <<live>>, !.pc = "perform_search"]
    /\ UNCHANGED notFind

\* search_id, nresult = await self.send(cdp.dom.perform_search(text, True));
\* the results are fetched "if nresult"
FindPerformSearch_Always ==
    /\ srch.pc = "perform_search"
    /\ \E search_id \in SearchIds, hits \in HitLists :
          srch' = [Sent(Cmd("DOM.performSearch", strip(srch.text))) EXCEPT
                      !.search_id = search_id, !.hits = hits,
                      !.pc = "get_search_results"]
    /\ UNCHANGED notFind
FindPerformSearch ==
    /\ srch.pc = "perform_search"
    /\ \E search_id \in SearchIds, hits \in HitLists :
          srch' = [Sent(Cmd("DOM.performSearch", strip(srch.text))) EXCEPT
                      !.search_id = search_id, !.hits = hits,
                      !.pc = IF Len(hits) # 0 THEN "get_search_results" ELSE "discard"]
    /\ UNCHANGED notFind

\* node_ids = await self.send(cdp.dom.get_search_results(search_id, 0, nresult)),
\* which the browser answers with the node ids or with an error
FindGetSearchResults ==
    /\ srch.pc = "get_search_results"
    /\ \E ok \in BOOLEAN :
          srch' = [Sent(Cmd("DOM.getSearchResults",
                            <<srch.search_id, 0, Len(srch.hits)>>)) EXCEPT
                      !.node_ids = IF ok THEN srch.hits ELSE <<>>,
                      !.err = IF ok THEN <<>> ELSE <<"ProtocolException">>,
                      !.pc = IF ok THEN "discard" ELSE "raised"]
    /\ UNCHANGED notFind

\* await self.send(cdp.dom.discard_search_results(search_id))
FindDiscard ==
    /\ srch.pc = "discard"
    /\ srch' = [Sent(Cmd("DOM.discardSearchResults", srch.search_id)) EXCEPT
                   !.pc = "resolve"]
    /\ UNCHANGED notFind

\* one pass of the loop over node_ids
FindResolve ==
    /\ srch.pc = "resolve"
    /\ srch.i < Len(srch.node_ids)
    /\ LET r == ResolveHit(srch.node_ids[srch.i + 1], srch.doc[1], live)
       IN  srch' = [srch EXCEPT !.sent = srch.sent \o r.sent,
                                !.items = srch.items \o r.item,
                                !.i = srch.i + 1,
                                !.err = r.err,
                                !.pc = IF r.err # <<>> THEN "raised" ELSE "resolve"]
    /\ UNCHANGED notFind

\* the frames are searched, the DOM agent is disabled and the call returns;
\* find_element_by_text picks its element from the items
FindReturn ==
    /\ srch.pc = "resolve"
    /\ srch.i = Len(srch.node_ids)
    /\ LET items == srch.items \o IframeItems(strip(srch.text), srch.doc[1])
       IN  srch' = [Sent(Cmd("DOM.disable", <<>>)) EXCEPT
                       !.items = items,
                       !.ret = IF srch.op = "find_elements_by_text" THEN items
                               ELSE ElementByText(srch.text, srch.best_match,
                                                  srch.return_enclosing_element, items),
                       !.pc = "returned"]
    /\ UNCHANGED notFind

\* the page changes while the call waits for an answer
FindPageChanges ==
    /\ srch.pc \in {"perform_search", "get_search_results", "discard", "resolve"}
    /\ live = srch.doc[1]
    /\ live' \in SearchDocs \ {live}
    /\ UNCHANGED <<elem, last, other, eqres, sendVars, genVars, runVars, findVars, tabVars>>

FindNext ==
    \/ FindCall
    \/ FindPageChanges
    \/ FindGetDocument
    \/ FindPerformSearch
    \/ FindGetSearchResults
    \/ FindDiscard
    \/ FindResolve
    \/ FindReturn

SpecFind == SearchInit /\ [][FindNext]_vars


----------------------------------------------------------------------------
(* The text search: order of the commands                                  *)

\* the positions of the commands of the call with the given method
SentAt(method) == {k \in 1..Len(srch.sent) : srch.sent[k].method = method}

\* the position of DOM.discardSearchResults in a call that found hits or none
DiscardAt == IF srch.hits # <<>> THEN 4 ELSE 3

----------------------------------------------------------------------------
(* The text search: text nodes and their enclosing elements                *)

\* the node of the first result in the fetched document, when it is a text
\* node whose parent is in that document
FirstTextHit ==
    IF srch.node_ids = <<>> THEN <<>>
    ELSE LET node == filter_recurse(srch.doc[1], "node_id", srch.node_ids[1])
         IN  IF /\ node # <<>>
                /\ node[1].node_type = 3
                /\ filter_recurse(srch.doc[1], "node_id", node[1].parent_id) # <<>>
             THEN node
             ELSE <<>>

\* C19: when the first result is a text node, find_element_by_text without
\* best_match returns the parent element of the node if
\* return_enclosing_element is True, and the text node itself if it is False
C19_EnclosingElement ==
    /\ srch.pc = "returned"
    /\ srch.op = "find_element_by_text"
    /\ ~srch.best_match
    /\ FirstTextHit # <<>>
    => /\ srch.ret # <<>>
       /\ srch.ret[1].node.node_id =
             IF srch.return_enclosing_element THEN FirstTextHit[1].parent_id
             ELSE FirstTextHit[1].node_id


----------------------------------------------------------------------------
(* The text search: the best match                                         *)

\* the distance of the k-th item of the call from the text searched for
ItemKey(k) == Abs(Len(srch.text) - Len(text_all(srch.items[k])))

\* C20: with best_match and items found, find_element_by_text returns an
\* item whose text_all differs least in length from the text, and of several
\* such items the first in the order of the results
C20_BestMatch ==
    /\ srch.pc = "returned"
    /\ srch.op = "find_element_by_text"
    /\ srch.best_match
    /\ srch.items # <<>>
    => /\ Len(srch.ret) = 1
       /\ \E k \in 1..Len(srch.items) :
              /\ srch.ret[1] = srch.items[k]
              /\ \A j \in 1..Len(srch.items) : ItemKey(k) <= ItemKey(j)
              /\ \A j \in 1..(k - 1) : ItemKey(j) # ItemKey(k)

\* the first item is not the closest, and two different items are
\* equally close
C20_Witness ==
    /\ srch.pc = "returned"
    /\ srch.op = "find_element_by_text"
    /\ srch.best_match
    /\ Len(srch.items) = 3
    /\ ItemKey(1) > ItemKey(2)
    /\ ItemKey(2) = ItemKey(3)
    /\ srch.items[2] # srch.items[3]
    /\ srch.ret = <<srch.items[2]>>


----------------------------------------------------------------------------
(* The generator script: what an aborted run leaves behind                 *)

\* main has ended with the error of a parse
AbortedInParse == run.pc = "failed" /\ run.n < Len(run.json)

\* C30: when main aborts while parsing, the output directory holds the files
\* it held before the run and the schema documents are still there
C30_AbortLeavesFiles ==
    AbortedInParse => run.out = run.old /\ run.json_present

\* C30, as the code has it: when main aborts while parsing, the output
\* directory has been removed and made again, so it is empty, and the schema
\* documents have been deleted
C30_AbortEmptiesOutput ==
    AbortedInParse => run.out = NoFiles /\ ~run.json_present

\* a run over a generated package ends in the parse of the second document
C30_Witness ==
    /\ AbortedInParse
    /\ run.n = 1
    /\ run.err = "AssertionError"
    /\ run.old = OldFiles
    /\ run.out = NoFiles
    /\ ~run.json_present


----------------------------------------------------------------------------
(* Tab.close                                                               *)

\* the TargetDestroyed events the browser sends at most during one close
MaxEvents == 3

\* the targets of the browser; the tab that is closed is target "T1", or has
\* no target
TargetIds == {"T1", "T2"}

\* a step of the call appended to its log
Logged(c, what, tid) == Append(c.log, [step |-> what, target_id |-> tid])

\* close_handler(event): the future gets the event of the tab's own target,
\* once
close_handler_AnyTarget(c, target_id) ==
    IF c.done THEN c
    ELSE [c EXCEPT !.future = <<target_id>>, !.done = TRUE]
close_handler(c, target_id) ==
    IF c.done THEN c
    ELSE IF c.target # <<>> /\ target_id = c.target[1]
    THEN [c EXCEPT !.future = <<target_id>>, !.done = TRUE]
    ELSE c

\* Connection.add_handler and Connection.remove_handlers on the handlers of
\* cdp.target.TargetDestroyed
add_handler(handlers, h) == Append(handlers, h)
remove_handlers(handlers, h) == SelectSeq(handlers, LAMBDA x : x # h)

\* a tab, with a browser that keeps a handler of its own for TargetDestroyed
CloseInit ==
    /\ cls = NoClose
    /\ wait = NoWait /\ clk = NoClick /\ rep = NoRepr
    /\ DomIdle
    /\ SendInit
    /\ GenInit
    /\ RunInit
    /\ FindInit

\* tab.close() up to its first await: the check of the browser, the future
\* and the registration of close_handler
CloseCall ==
    /\ cls = NoClose
    /\ \E started \in BOOLEAN, target \in {<<>>, <<"T1">>} :
          LET c == [pc |-> "call", target |-> target, handlers |-> <<"browser_handler">>,
                    future |-> <<>>, done |-> FALSE, sent |-> <<>>, events |-> 0,
                    log |-> <<>>, err |-> ""]
          IN  cls' = IF ~started
                     THEN [c EXCEPT !.pc = "raised", !.err = "RuntimeError"]
                     ELSE [c EXCEPT !.pc = "send",
                                    !.handlers = add_handler(c.handlers, "close_handler"),
                                    !.log = Logged(c, "add_handler", "")]
    /\ UNCHANGED <<notTab, wait, clk, rep>>

\* await self.send(cdp.target.close_target(...)) "if self.target and
\* self.target.target_id"; the send can fail
CloseSend ==
    /\ cls.pc = "send"
    /\ \E ok \in BOOLEAN :
          cls' = IF cls.target = <<>>
                 THEN [cls EXCEPT !.pc = "wait"]
                 ELSE LET c == [cls EXCEPT !.sent = Append(cls.sent,
                                                Cmd("Target.closeTarget", cls.target[1])),
                                           !.log = Logged(cls, "send", cls.target[1])]
                      IN  IF ok THEN [c EXCEPT !.pc = "wait"]
                          ELSE [c EXCEPT !.pc = "raised", !.err = "ProtocolException"]
    /\ UNCHANGED <<notTab, wait, clk, rep>>

\* the browser sends TargetDestroyed for a target: the connection hands the
\* event to the handlers registered for it
TargetDestroyed ==
    /\ cls.pc # "idle"
    /\ cls.events < MaxEvents
    /\ \E target_id \in TargetIds :
          LET c == [cls EXCEPT !.events = cls.events + 1,
                               !.log = Logged(cls, "event", target_id)]
          IN  cls' = IF \E i \in 1..Len(cls.handlers) : cls.handlers[i] = "close_handler"
                     THEN close_handler(c, target_id)
                     ELSE c
    /\ UNCHANGED <<notTab, wait, clk, rep>>

\* await asyncio.wait_for(future, 10) ends with the result; the handler is
\* removed and close returns
CloseReturn ==
    /\ cls.pc = "wait"
    /\ cls.future # <<>>
    /\ cls' = [cls EXCEPT !.pc = "returned",
                          !.handlers = remove_handlers(cls.handlers, "close_handler"),
                          !.log = Logged(cls, "remove_handlers", "")]
    /\ UNCHANGED <<notTab, wait, clk, rep>>

\* ten seconds pass without the result: wait_for cancels the future and
\* raises
CloseTimeout ==
    /\ cls.pc = "wait"
    /\ cls.future = <<>>
    /\ cls' = [cls EXCEPT !.pc = "raised", !.err = "TimeoutError", !.done = TRUE]
    /\ UNCHANGED <<notTab, wait, clk, rep>>

CloseNext ==
    \/ CloseCall
    \/ CloseSend
    \/ TargetDestroyed
    \/ CloseReturn
    \/ CloseTimeout

SpecClose == CloseInit /\ [][CloseNext]_vars

\* the positions of a step in the log of the close
LogAt(what) == {k \in 1..Len(cls.log) : cls.log[k].step = what}

\* the close has ended
CloseEnded == cls.pc \in {"returned", "raised"}

\* close_handler is registered on the browser connection
Registered == \E i \in 1..Len(cls.handlers) : cls.handlers[i] = "close_handler"

\* C26: close_handler is registered before Target.closeTarget is sent; close
\* returns only after a TargetDestroyed event of the tab's own target was
\* handed to the registered handler; the events of other targets never
\* complete the future
C26_CloseWaitsForOwnTarget ==
    cls.pc # "idle" =>
        /\ \A s \in LogAt("send") : \E a \in LogAt("add_handler") : a < s
        /\ cls.future # <<>> => cls.target # <<>> /\ cls.future = cls.target
        /\ cls.pc = "returned" =>
              \E e \in LogAt("event") :
                  /\ cls.log[e].target_id = cls.target[1]
                  /\ \E a \in LogAt("add_handler") : a < e
                  /\ \A r \in LogAt("remove_handlers") : e < r

\* close has returned after the event of another target and then the event
\* of its own
C26_Witness ==
    /\ cls.pc = "returned"
    /\ Len(cls.log) = 5
    /\ cls.log[2].step = "send"
    /\ cls.log[3] = [step |-> "event", target_id |-> "T2"]
    /\ cls.log[4] = [step |-> "event", target_id |-> "T1"]

\* C27: after close has ended, by returning or by raising after it had
\* registered its handler, close_handler is not registered any more
C27_HandlerRemoved ==
    CloseEnded /\ LogAt("add_handler") # {} => ~Registered


----------------------------------------------------------------------------
(* Element._make_attrs and Element.__repr__                                *)

\* the most attributes of the element
MaxAttrs == 2

\* the attribute names and values of the element; the browser reports a
\* name once
AttrNames == {"id", "class", "class_", "href"}
AttrValues == {"a", "b"}
AttrPairs ==
    {ps \in UNION {[1..n -> AttrNames \X AttrValues] : n \in 0..MaxAttrs} :
        \A i, j \in 1..Len(ps) : i # j => ps[i][1] # ps[j][1]}

\* the flat list [k1, v1, k2, v2, ...] of cdp.dom.Node.attributes
Flat(ps) == [i \in 1..(2 * Len(ps)) |-> ps[(i + 1) \div 2][IF i % 2 = 1 THEN 1 ELSE 2]]

\* f'{k if k != "class_" else "class"}="{v}"'
AttrText(k, v) == (IF k # "class_" THEN k ELSE "class") \o "=\"" \o v \o "\""

\* Element.__repr__ of an element without children: the tag name, the
\* attributes joined by " " and the content
repr(h) ==
    [tag_name |-> IF h.node.node_name = "DIV" THEN "div" ELSE h.node.node_name,
     attrs |-> Join([i \in 1..Len(h.attrs) |-> AttrText(h.attrs[i][1], h.attrs[i][2])]),
     content |-> ""]

\* the browser holds an element with some attributes
ReprInit ==
    /\ \E ps \in AttrPairs : rep = [pc |-> "node", pairs |-> ps, h |-> <<>>, s |-> <<>>]
    /\ wait = NoWait /\ cls = NoClose /\ clk = NoClick
    /\ DomIdle
    /\ SendInit
    /\ GenInit
    /\ RunInit
    /\ FindInit

\* element.create(node, tab, tree): Element.__init__ with _make_attrs
ReprCreate ==
    /\ rep.pc = "node"
    /\ rep' = [rep EXCEPT
                 !.pc = "element",
                 !.h = <<Element(Node(7, 7, 1, "DIV", "", <<>>, Flat(rep.pairs), <<>>, 1),
                                 "tabA", <<live>>)>>]
    /\ UNCHANGED <<notTab, wait, cls, clk>>

\* str(element)
ReprStr ==
    /\ rep.pc = "element"
    /\ rep' = [rep EXCEPT !.pc = "str", !.s = <<repr(rep.h[1])>>]
    /\ UNCHANGED <<notTab, wait, cls, clk>>

ReprNext == ReprCreate \/ ReprStr

SpecRepr == ReprInit /\ [][ReprNext]_vars

\* C24: the map of the element holds the pairs of the attribute list in list
\* order, class under the name class_, and the string form of the element
\* shows every attribute of the list by its name and value
C24_AttrsRoundTrip ==
    /\ rep.pc \in {"element", "str"} =>
          rep.h[1].attrs =
              [i \in 1..Len(rep.pairs) |->
                  <<IF rep.pairs[i][1] = "class" THEN "class_" ELSE rep.pairs[i][1],
                    rep.pairs[i][2]>>]
    /\ rep.pc = "str" =>
          rep.s[1].attrs =
              Join([i \in 1..Len(rep.pairs) |->
                       rep.pairs[i][1] \o "=\"" \o rep.pairs[i][2] \o "\""])


----------------------------------------------------------------------------
(* The retry marker of a rooted query                                      *)

\* C25: when a Tab.query_selector(_all) call rooted at a node or a handle
\* has returned or raised, the root does not carry the marker "__last"
C25_NoMarkerAfterCall ==
    (last.op \in {"tab_query", "elem_query"} /\ last.kind # "doc" /\ last.resp # <<>>)
        => ~last.markAfter


----------------------------------------------------------------------------
(* The text search: the search handle                                      *)

\* C28: when a find_elements_by_text call that has sent DOM.performSearch
\* has ended, by returning or by raising, it has sent
\* DOM.discardSearchResults for the search id it got
C28_SearchReleased ==
    (srch.pc \in {"returned", "raised"} /\ SentAt("DOM.performSearch") # {}) =>
        \E k \in SentAt("DOM.discardSearchResults") :
            srch.sent[k].arg = srch.search_id


----------------------------------------------------------------------------
(* Element.mouse_click and Tab.mouse_click                                 *)

\* the call with one more command sent and awaited on its own
ClickSent(c, methods) == [c EXCEPT !.sent = c.sent \o methods]

\* a session on which no click has been made
ClickInit ==
    /\ clk = NoClick
    /\ wait = NoWait /\ cls = NoClose /\ rep = NoRepr
    /\ DomIdle
    /\ SendInit
    /\ GenInit
    /\ RunInit
    /\ FindInit

\* no click is under way
ClickIdle == clk.pc \in {"idle", "returned"}

\* element.mouse_click(): get_position, and with a position the gather of the
\* mousePressed send and the mouseReleased send
ElementMouseClick ==
    /\ ClickIdle
    /\ Len(tasks) + 2 <= MaxSends
    /\ \E position \in BOOLEAN :
          LET c == [pc |-> "gathered", op |-> "Element.mouse_click",
                    pressed |-> 0, released |-> 0,
                    sent |-> <<"DOM.resolveNode", "DOM.getContentQuads">>]
          IN  IF position
              THEN /\ clk' = [c EXCEPT !.pressed = Len(tasks) + 1,
                                       !.released = Len(tasks) + 2]
                   /\ tasks' = tasks \o <<SendTask, SendTask>>
              ELSE /\ clk' = [c EXCEPT !.pc = "returned"]
                   /\ UNCHANGED tasks
    /\ UNCHANGED <<next_id, pending, socket, inbox, delivered, domVars, genVars, runVars, findVars, wait, cls, rep>>

\* tab.mouse_click(x, y): await self.send(... "mousePressed" ...)
TabMouseClick ==
    /\ ClickIdle
    /\ Len(tasks) + 2 <= MaxSends
    /\ clk' = [pc |-> "pressed", op |-> "Tab.mouse_click",
               pressed |-> Len(tasks) + 1, released |-> 0, sent |-> <<>>]
    /\ tasks' = Append(tasks, SendTask)
    /\ UNCHANGED <<next_id, pending, socket, inbox, delivered, domVars, genVars, runVars, findVars, wait, cls, rep>>

\* tab.mouse_click(x, y), after the first send has its response:
\* await self.send(... "mouseReleased" ...)
TabMouseRelease ==
    /\ clk.pc = "pressed"
    /\ tasks[clk.pressed].pc = "done"
    /\ clk' = [clk EXCEPT !.pc = "released", !.released = Len(tasks) + 1]
    /\ tasks' = Append(tasks, SendTask)
    /\ UNCHANGED <<next_id, pending, socket, inbox, delivered, domVars, genVars, runVars, findVars, wait, cls, rep>>

\* both sends have their responses: the element is flashed (an error of
\* flash is swallowed) and the call returns
ClickReturn ==
    /\ clk.pc \in {"gathered", "released"}
    /\ tasks[clk.pressed].pc = "done"
    /\ tasks[clk.released].pc = "done"
    /\ clk' = [(IF clk.op = "Element.mouse_click"
                THEN ClickSent(clk, <<"Runtime.callFunctionOn">>) ELSE clk)
               EXCEPT !.pc = "returned"]
    /\ UNCHANGED <<notTab, wait, cls, rep>>

ClickNext ==
    \/ ElementMouseClick
    \/ TabMouseClick
    \/ TabMouseRelease
    \/ ClickReturn
    \/ SendStart
    \/ BrowserAnswer
    \/ Listener

SpecClick == ClickInit /\ [][ClickNext]_vars

\* the position on the socket of the frame of a send
FrameOf(t) == {i \in 1..Len(socket) : socket[i].task = t}

\* the session has the mouseReleased command of the click
ReleasedHanded == clk.pc # "idle" /\ clk.released # 0 /\ FrameOf(clk.released) # {}

----------------------------------------------------------------------------
(* The waiting calls of a tab: find, select, find_all, select_all, xpath,  *)
(* wait_for and tab(...)                                                   *)

\* the waiting calls made one after the other on one tab
MaxCalls == 2

\* time is counted in tenths of a second: self.sleep(0.5) takes five of
\* them, the answer to a query none (less than the clock shows) or one
SleepTicks == 5
AnswerTicks == {0, 1}

\* the timeouts the user passes, and the texts and selectors
Timeouts == {0, 3}
WaitTexts == {"login"}
WaitSelectors == {"div"}

\* the query an attempt of a call makes and what it queries for
QueryOf(op) ==
    CASE op = "find" -> "find_element_by_text"
      [] op = "select" -> "query_selector"
      [] op = "find_all" -> "find_elements_by_text"
      [] op = "select_all" -> "query_selector_all"
      [] op = "xpath" -> "find_elements_by_text"

\* a tab on which no waiting call has been made
WaitInit ==
    /\ wait = NoWait
    /\ cls = NoClose /\ clk = NoClick /\ rep = NoRepr
    /\ DomIdle
    /\ SendInit
    /\ GenInit
    /\ RunInit
    /\ FindInit

\* no waiting call is under way; now is the time on the clock of the loop
WaitIdle == wait.pc \in {"idle", "returned", "raised"}
WaitNow == IF wait.pc = "idle" THEN 0 ELSE wait.now
WaitCalls == IF wait.pc = "idle" THEN 0 ELSE wait.calls

\* a call begins: start_time = loop.time(); given is what the user passed,
\* before is how the call before ended
Waiting(op, selector, text, timeout, pc) ==
    [pc |-> pc, op |-> op, selector |-> selector, text |-> text, timeout |-> timeout,
     given |-> [selector |-> selector, text |-> text, timeout |-> timeout],
     before |-> IF wait.pc = "idle" THEN "" ELSE wait.err,
     start |-> WaitNow, now |-> WaitNow, calls |-> WaitCalls + 1,
     phase |-> "", first |-> TRUE, query |-> "", arg |-> "", pending |-> 0,
     attempts |-> <<>>, item |-> <<>>, sent |-> <<>>, ret |-> <<>>, err |-> ""]

\* tab.find(text, timeout=...), tab.select(selector, timeout=...),
\* tab.find_all(text, timeout=...), tab.select_all(selector, timeout=...);
\* tab.xpath(xpath, timeout=...) sends DOM.enable and calls
\* self.find_all(xpath, timeout=0); select_all is called with its default
\* include_frames=False
WaitCall ==
    /\ WaitIdle
    /\ WaitCalls < MaxCalls
    /\ \E op \in {"find", "select", "find_all", "select_all", "xpath"},
          timeout \in Timeouts :
          LET bySelector == op \in {"select", "select_all"}
              arg == IF op = "xpath" THEN "//p" ELSE IF bySelector THEN "div" ELSE "login"
              w == Waiting(op, IF bySelector THEN <<arg>> ELSE <<>>,
                           IF bySelector THEN <<>> ELSE <<arg>>, timeout, "attempt")
          IN  wait' = [w EXCEPT !.query = QueryOf(op), !.arg = arg,
                                !.timeout = IF op = "xpath" THEN 0 ELSE timeout,
                                !.sent = IF op = "xpath" THEN <<"DOM.enable">> ELSE <<>>]
    /\ UNCHANGED <<notTab, cls, clk, rep>>

\* wait_for(selector, text, timeout): the first query is for the selector if
\* one is given, else for the text; with neither it raises at once
wait_for(op, selector, text, timeout) ==
    LET w == Waiting(op, selector, text, timeout, "attempt")
    IN  IF selector # <<>>
        THEN [w EXCEPT !.phase = "selector", !.query = "query_selector",
                       !.arg = selector[1]]
        ELSE IF text # <<>>
        THEN [w EXCEPT !.phase = "text", !.query = "find_element_by_text",
                       !.arg = text[1]]
        ELSE [w EXCEPT !.pc = "raised", !.err = "TimeoutError"]

\* tab(text, selector, timeout): return await self.wait_for(text, selector,
\* timeout)
call(text, selector, timeout) ==
    [wait_for("__call__", text, selector, timeout) EXCEPT
        !.given = [selector |-> selector, text |-> text, timeout |-> timeout]]

\* tab.wait_for(selector=..., text=..., timeout=...) or
\* tab(text=..., selector=..., timeout=...)
WaitForCall ==
    /\ WaitIdle
    /\ WaitCalls < MaxCalls
    /\ \E alias \in BOOLEAN, timeout \in Timeouts,
          selector \in {<<>>} \cup {<<s>> : s \in WaitSelectors},
          text \in {<<>>} \cup {<<t>> : t \in WaitTexts} :
          wait' = IF alias THEN call(text, selector, timeout)
                  ELSE wait_for("wait_for", selector, text, timeout)
    /\ UNCHANGED <<notTab, cls, clk, rep>>

\* the query of an attempt is sent
WaitAttempt ==
    /\ wait.pc = "attempt"
    /\ wait' = [wait EXCEPT !.pc = "answer", !.pending = 1]
    /\ UNCHANGED <<notTab, cls, clk, rep>>

\* the call with the answer to its query: found, nothing found, or an error
Answered(found, ticks) ==
    [wait EXCEPT !.pending = 0, !.now = wait.now + ticks, !.first = FALSE,
                 !.item = IF found THEN <<"element">> ELSE <<>>,
                 !.attempts = Append(wait.attempts,
                                     [query |-> wait.query, arg |-> wait.arg,
                                      found |-> found])]

\* the call ends with the error of its query; xpath disables the DOM agent in
\* its finally clause
Failed(w, e) ==
    [w EXCEPT !.pc = "raised", !.err = e,
              !.sent = IF w.op = "xpath" THEN Append(w.sent, "DOM.disable") ELSE w.sent]

\* find, select, find_all, select_all, and find_all for xpath: the answer of
\* an attempt; a match is returned, and without one the call raises when
\* loop.time() - start_time > timeout and sleeps otherwise
WaitAnswer_AtTimeout ==
    /\ wait.pc = "answer"
    /\ wait.op \notin {"wait_for", "__call__"}
    /\ \E answer \in {"found", "none", "error"}, ticks \in AnswerTicks :
          LET w == Answered(answer = "found", ticks)
          IN  wait' = IF answer = "error" THEN Failed(w, "ProtocolException")
                      ELSE IF w.item # <<>>
                      THEN [w EXCEPT !.pc = "returned", !.ret = w.item,
                                     !.sent = IF w.op = "xpath"
                                              THEN Append(w.sent, "DOM.disable")
                                              ELSE w.sent]
                      ELSE IF w.now - w.start >= w.timeout
                      THEN Failed(w, "TimeoutError")
                      ELSE [w EXCEPT !.pc = "sleep"]
    /\ UNCHANGED <<notTab, cls, clk, rep>>
WaitAnswer ==
    /\ wait.pc = "answer"
    /\ wait.op \notin {"wait_for", "__call__"}
    /\ \E answer \in {"found", "none", "error"}, ticks \in AnswerTicks :
          LET w == Answered(answer = "found", ticks)
          IN  wait' = IF answer = "error" THEN Failed(w, "ProtocolException")
                      ELSE IF w.item # <<>>
                      THEN [w EXCEPT !.pc = "returned", !.ret = w.item,
                                     !.sent = IF w.op = "xpath"
                                              THEN Append(w.sent, "DOM.disable")
                                              ELSE w.sent]
                      ELSE IF w.now - w.start > w.timeout
                      THEN Failed(w, "TimeoutError")
                      ELSE [w EXCEPT !.pc = "sleep"]
    /\ UNCHANGED <<notTab, cls, clk, rep>>

\* await self.sleep(0.5) of find, select, find_all, select_all
WaitSleep ==
    /\ wait.pc = "sleep"
    /\ wait.op \notin {"wait_for", "__call__"}
    /\ wait' = [wait EXCEPT !.pc = "attempt", !.now = wait.now + SleepTicks]
    /\ UNCHANGED <<notTab, cls, clk, rep>>

\* wait_for after the loop of a phase: the item is returned; without one the
\* text is queried for after the selector, and then the call raises
AfterLoop(w) ==
    IF w.item # <<>> THEN [w EXCEPT !.pc = "returned", !.ret = w.item]
    ELSE IF w.phase = "selector" /\ w.text # <<>>
    THEN [w EXCEPT !.pc = "attempt", !.phase = "text", !.first = TRUE,
                   !.query = "find_element_by_text", !.arg = w.text[1]]
    ELSE [w EXCEPT !.pc = "raised", !.err = "TimeoutError"]

\* "while not item and loop.time() - start_time < timeout"
Loops(w) == w.item = <<>> /\ w.now - w.start < w.timeout

\* wait_for: the answer of an attempt; the first of a phase is followed by
\* the test of the loop, one made in the loop by self.sleep(0.5)
WaitForAnswer ==
    /\ wait.pc = "answer"
    /\ wait.op \in {"wait_for", "__call__"}
    /\ \E answer \in {"found", "none", "error"}, ticks \in AnswerTicks :
          LET w == Answered(answer = "found", ticks)
          IN  wait' = IF answer = "error" THEN Failed(w, "ProtocolException")
                      ELSE IF ~wait.first THEN [w EXCEPT !.pc = "sleep"]
                      ELSE IF Loops(w) THEN [w EXCEPT !.pc = "attempt"]
                      ELSE AfterLoop(w)
    /\ UNCHANGED <<notTab, cls, clk, rep>>

\* wait_for: await self.sleep(0.5) in the loop, and the test of the loop
WaitForSleep ==
    /\ wait.pc = "sleep"
    /\ wait.op \in {"wait_for", "__call__"}
    /\ LET w == [wait EXCEPT !.now = wait.now + SleepTicks]
       IN  wait' = IF Loops(w) THEN [w EXCEPT !.pc = "attempt"] ELSE AfterLoop(w)
    /\ UNCHANGED <<notTab, cls, clk, rep>>

WaitNext ==
    \/ WaitCall
    \/ WaitForCall
    \/ WaitAttempt
    \/ WaitAnswer
    \/ WaitSleep
    \/ WaitForAnswer
    \/ WaitForSleep

SpecWait == WaitInit /\ [][WaitNext]_vars


----------------------------------------------------------------------------
(* Claims about the waiting calls                                          *)

WaitEnded == wait.pc \in {"returned", "raised"}

\* no attempt of the call has found anything
NoMatch == \A k \in 1..Len(wait.attempts) : ~wait.attempts[k].found

\* C21: find, select, find_all and select_all return nothing empty: every
\* attempt but the last has found nothing, the call returns what the last
\* one found; it raises TimeoutError only after an attempt, when no attempt
\* has found anything and the time since the start is greater than the
\* timeout, and then no request of the call is pending
C21_WaitUntilMatchOrTimeout ==
    (wait.pc # "idle" /\ wait.op \in {"find", "select", "find_all", "select_all"}) =>
        /\ \A k \in 1..(Len(wait.attempts) - 1) : ~wait.attempts[k].found
        /\ wait.pc = "returned" =>
              /\ wait.ret # <<>>
              /\ wait.attempts[Len(wait.attempts)].found
        /\ (wait.pc = "raised" /\ wait.err = "TimeoutError") =>
              /\ Len(wait.attempts) >= 1
              /\ NoMatch
              /\ wait.now - wait.start > wait.timeout
              /\ wait.pending = 0
        /\ (WaitEnded /\ NoMatch /\ wait.err # "ProtocolException") =>
              wait.pc = "raised" /\ wait.err = "TimeoutError"

\* the call before on the same tab has raised TimeoutError; this find with
\* a timeout of 0.3 seconds has found nothing at first, has slept and has
\* returned the match of its second attempt
C21_Witness ==
    /\ wait.pc = "returned"
    /\ wait.op = "find"
    /\ wait.before = "TimeoutError"
    /\ wait.calls = 2
    /\ wait.timeout = 3
    /\ Len(wait.attempts) = 2
    /\ wait.ret # <<>>

\* C22: an xpath call in which no attempt finds anything does not raise: it
\* returns the empty list
C22_XpathReturnsEmpty ==
    (WaitEnded /\ wait.op = "xpath" /\ NoMatch /\ wait.err # "ProtocolException") =>
        wait.pc = "returned" /\ wait.ret = <<>>

\* C23: tab(text=T, selector=S) queries as wait_for does: every query by
\* text is for T and every query by selector is for S
C23_CallKeepsArguments ==
    (wait.pc # "idle" /\ wait.op = "__call__") =>
        \A k \in 1..Len(wait.attempts) :
            /\ wait.attempts[k].query = "find_element_by_text" =>
                  wait.given.text = <<wait.attempts[k].arg>>
            /\ wait.attempts[k].query = "query_selector" =>
                  wait.given.selector = <<wait.attempts[k].arg>>

====
